---- MODULE Spec2Model ----
(***************************************************************************)
(* A model of rugmat-rs: the float codec (float_serializer.rs), the matrix *)
(* file format (rugmat_io.rs) and the dense-matrix kernels (rugmat.rs).    *)
(*                                                                         *)
(* Representation.  TLC's integers are 32 bits wide, so a 64-bit machine   *)
(* word (an MPFR limb, the i64 exponent, a u64 length) is held as its four *)
(* 16-bit words, most significant first: <<w3, w2, w1, w0>>.  A byte is a  *)
(* number in 0..255 and a byte stream is a sequence of bytes.              *)
(*                                                                         *)
(* A Float is the MPFR record the codec reads through as_raw():            *)
(*   [prec, sign, exp, limbs], limbs least significant first, as in        *)
(* __mpfr_struct.d.                                                        *)
(***************************************************************************)
EXTENDS Integers, Sequences, FiniteSets, TLC

VARIABLES
    pc,         \* position of the scenario being run
    original,   \* codec: the Float handed to write_float
    buf,        \* codec: the byte stream (the Vec<u8> / Cursor)
    restored,   \* codec: what read_float returned
    mat,        \* file: the RugMat handed to save_to_file
    file,       \* file: the bytes of the file at `path`
    edit,       \* file: what was done to the file after it was saved
    loaded,     \* file: what load_from_file returned
    input,      \* constructors: the row-of-rows the matrices are built from
    built,      \* constructors: the matrix each constructor returned
    target,     \* constructors: the matrix an element is read or written in
    access,     \* constructors: the last element access and what it gave
    matA,       \* kernels: the matrix `self` of the call
    operand,    \* kernels: `other`, `v`, or how rayon grouped the columns
    workers,    \* kernels: the private state of each parallel closure
    output,     \* kernels: result_data / the collected items, then the result
    args,       \* solvers: the arguments of the call, `self` included
    frame,      \* solvers: the local variables of the function being run
    ret         \* solvers: what the call returned

vars == <<pc, original, buf, restored, mat, file, edit, loaded,
          input, built, target, access, matA, operand, workers, output,
          args, frame, ret>>

codecVars == <<original, buf, restored>>
ioVars == <<mat, file, edit, loaded>>
ctorVars == <<input, built, target, access>>

\* what a scenario leaves alone: the variables of the other scenarios
kernelVars == <<matA, operand, workers, output>>
solverVars == <<args, frame, ret>>
notCodec == <<ioVars, ctorVars, kernelVars, solverVars>>
notIo == <<codecVars, ctorVars, kernelVars, solverVars>>
notCtor == <<codecVars, ioVars, kernelVars, solverVars>>
notKernel == <<codecVars, ioVars, ctorVars, solverVars>>
notSolver == <<codecVars, ioVars, ctorVars, kernelVars>>

NoResult == [kind |-> "None"]
NoEdit == [kind |-> "none", at |-> 0]

\* the variables of a scenario that is not the one being run
CodecIdle == original = <<>> /\ buf = <<>> /\ restored = NoResult
IoIdle == mat = <<>> /\ file = <<>> /\ edit = NoEdit /\ loaded = NoResult
CtorIdle == input = <<>> /\ built = <<>> /\ target = <<>> /\ access = NoResult

KernelIdle == matA = <<>> /\ operand = <<>> /\ workers = <<>> /\ output = <<>>

SolverIdle == args = <<>> /\ frame = <<>> /\ ret = NoResult

CodecOnly == IoIdle /\ CtorIdle /\ KernelIdle /\ SolverIdle
IoOnly == CodecIdle /\ CtorIdle /\ KernelIdle /\ SolverIdle
CtorOnly == CodecIdle /\ IoIdle /\ KernelIdle /\ SolverIdle
KernelOnly == CodecIdle /\ IoIdle /\ CtorIdle /\ SolverIdle
SolverOnly == CodecIdle /\ IoIdle /\ CtorIdle /\ KernelIdle

(***************************************************************************)
(* Bounds of the model.                                                    *)
(***************************************************************************)
\* Floats of 1..MaxLimbs limbs, i.e. precisions up to 64 * MaxLimbs bits.
MaxLimbs == 2

(***************************************************************************)
(* Bytes and machine words.                                                *)
(***************************************************************************)
Byte == 0..255

RECURSIVE Flatten(_)
Flatten(ss) == IF ss = <<>> THEN <<>> ELSE Head(ss) \o Flatten(Tail(ss))

Reverse(s) == [i \in 1..Len(s) |-> s[Len(s) + 1 - i]]

\* u16 -> its two bytes, little-endian
WordToLE(w) == <<w % 256, w \div 256>>

\* u32::to_le_bytes, for the values a TLC integer can hold (0 .. 2^31 - 1)
U32ToLE(n) == <<n % 256, (n \div 256) % 256, (n \div 65536) % 256, (n \div 16777216) % 256>>

\* u32::from_le_bytes
U32FromLE(b) == b[1] + 256 * b[2] + 65536 * b[3] + 16777216 * b[4]

\* i8::to_le_bytes: the two's complement byte
I8ToLE(s) == <<(s + 256) % 256>>

\* i8::from_le_bytes
I8FromLE(b) == IF b[1] < 128 THEN b[1] ELSE b[1] - 256

\* u64::to_le_bytes / i64::to_le_bytes on a word held as <<w3, w2, w1, w0>>:
\* the least significant byte first.
W64ToLE(w) == WordToLE(w[4]) \o WordToLE(w[3]) \o WordToLE(w[2]) \o WordToLE(w[1])

\* u64::from_le_bytes / i64::from_le_bytes
W64FromLE(b) == <<b[7] + 256 * b[8], b[5] + 256 * b[6], b[3] + 256 * b[4], b[1] + 256 * b[2]>>

\* `n as u64` for a usize the model can hold
W64OfNat(n) == <<0, 0, n \div 65536, n % 65536>>

\* A length too large for the model's integers (>= 2^31).
Huge == -1

\* `x as usize` of a decoded u64: the number, or Huge when it is 2^31 or more
NatOfW64(w) ==
    IF w[1] = 0 /\ w[2] = 0 /\ w[3] < 32768 THEN w[3] * 65536 + w[4] ELSE Huge

\* the sum of a[i] * b[k - i] over the byte positions i of two 8-byte
\* little-endian numbers (positions counted from 0)
RECURSIVE MulColumn(_, _, _, _)
MulColumn(a, b, k, i) ==
    IF i > 7 THEN 0
    ELSE (IF k - i \in 0..7 THEN a[i + 1] * b[k - i + 1] ELSE 0) + MulColumn(a, b, k, i + 1)

\* the carry out of byte position k of the product of two 8-byte numbers
RECURSIVE MulCarry(_, _, _)
MulCarry(a, b, k) ==
    IF k < 0 THEN 0 ELSE (MulColumn(a, b, k, 0) + MulCarry(a, b, k - 1)) \div 256

\* the low 8 bytes of the product, least significant first
MulBytes(a, b) ==
    [k \in 1..8 |-> (MulColumn(a, b, k - 1, 0) + MulCarry(a, b, k - 2)) % 256]

\* usize * usize on a 64-bit target: the product modulo 2^64, and whether
\* the mathematical product is 2^64 or more
W64Mul(a, b) ==
    [product |-> W64FromLE(MulBytes(W64ToLE(a), W64ToLE(b))),
     overflow |-> \/ MulCarry(W64ToLE(a), W64ToLE(b), 7) # 0
                  \/ \E k \in 8..14 : MulColumn(W64ToLE(a), W64ToLE(b), k, 0) # 0]

\* i64 constants of MPFR: __MPFR_EXP_ZERO = i64::MIN + 1
ExpZero == <<32768, 0, 0, 1>>

(***************************************************************************)
(* std::io::Read::read_exact on a Cursor / BufReader: n bytes from offset  *)
(* pos, or ErrorKind::UnexpectedEof when fewer are left.                   *)
(***************************************************************************)
read_exact_short(s, pos, n) ==
    [ok |-> TRUE,
     bytes |-> [i \in 1..n |-> IF pos + i <= Len(s) THEN s[pos + i] ELSE 0],
     pos |-> pos + n]

read_exact(s, pos, n) ==
    IF pos + n <= Len(s)
    THEN [ok |-> TRUE, bytes |-> SubSeq(s, pos + 1, pos + n), pos |-> pos + n]
    ELSE [ok |-> FALSE, bytes |-> <<>>, pos |-> pos]

(***************************************************************************)
(* float_serializer.rs                                                     *)
(***************************************************************************)
\* n_limbs = ((prec + 63) / 64) as usize
NLimbs(prec) == (prec + 63) \div 64

\* write_float: prec u32 | sign i8 | exp i64 | n_limbs u64 | limbs u64...
write_float(f) ==
    LET prec == f.prec
        exp == f.exp
        sign == IF f.sign = 1 THEN 1 ELSE -1
        n_limbs == NLimbs(prec)
        limbs == SubSeq(f.limbs, 1, n_limbs)
    IN U32ToLE(prec) \o I8ToLE(sign) \o W64ToLE(exp) \o W64ToLE(W64OfNat(n_limbs))
         \o Flatten([i \in 1..Len(limbs) |-> W64ToLE(limbs[i])])

\* the loop `for i in 0..n_limbs { reader.read_exact(&mut buf8)?; limbs[i] = .. }`
RECURSIVE ReadLimbs(_, _, _, _)
ReadLimbs(s, pos, n, acc) ==
    IF n = 0 THEN [ok |-> TRUE, limbs |-> acc, pos |-> pos]
    ELSE LET r == read_exact(s, pos, 8)
         IN IF ~r.ok THEN [ok |-> FALSE, limbs |-> acc, pos |-> pos]
            ELSE ReadLimbs(s, r.pos, n - 1, Append(acc, W64FromLE(r.bytes)))

EofError == [kind |-> "UnexpectedEof"]

ApplySign_dropped(f, sign) == f

\* if sign < 0 { f = -f }: the negation flips the sign field in place
ApplySign(f, sign) == IF sign < 0 THEN [f EXCEPT !.sign = -f.sign] ELSE f

\* read_float.  `uninit` is the content of limb storage that Float::new
\* allocates and nothing writes; `allocOk` is whether vec![0u64; n_limbs] of a
\* huge n_limbs is granted.
read_float(s, uninit, allocOk) ==
    LET r1 == read_exact(s, 0, 4)
        r2 == read_exact(s, r1.pos, 1)
        r3 == read_exact(s, r2.pos, 8)
        r4 == read_exact(s, r3.pos, 8)
    IN  IF ~r1.ok \/ ~r2.ok \/ ~r3.ok \/ ~r4.ok THEN EofError
        ELSE
        LET prec == U32FromLE(r1.bytes)
            sign == I8FromLE(r2.bytes)
            exp == W64FromLE(r3.bytes)
            n_limbs == NatOfW64(W64FromLE(r4.bytes))
        IN  IF n_limbs = Huge
            THEN (IF allocOk THEN EofError ELSE [kind |-> "Abort"])
            ELSE
            LET rl == ReadLimbs(s, r4.pos, n_limbs, <<>>)
            IN  IF ~rl.ok THEN EofError
                ELSE IF prec = 0 THEN [kind |-> "Panic"]  \* Float::new(0)
                ELSE
                LET alloc == NLimbs(prec)
                    \* copy_nonoverlapping(limbs, raw.d, n_limbs)
                    d == [i \in 1..alloc |->
                            IF i <= n_limbs THEN rl.limbs[i] ELSE uninit]
                    f == [prec |-> prec, sign |-> 1, exp |-> exp, limbs |-> d]
                IN  [kind |-> "Ok",
                     val |-> ApplySign(f, sign),
                     copied |-> n_limbs,
                     alloc |-> alloc,
                     pos |-> rl.pos]

(***************************************************************************)
(* The Float values the codec scenarios draw from.                         *)
(***************************************************************************)
Precisions == {p \in 1..(64 * MaxLimbs) : p % 64 \in {0, 1, 16}}

\* limb patterns: top bit only, all ones, low bit only
LimbValues == {<<32768, 0, 0, 0>>, <<65535, 65535, 65535, 65535>>, <<0, 258, 772, 1>>}

\* exponents: 0, 1, -1, 4660 * 65536 + 22136, EXP_ZERO
ExpValues == {<<0, 0, 0, 0>>, <<0, 0, 0, 1>>, <<65535, 65535, 65535, 65535>>,
              <<0, 0, 4660, 22136>>, ExpZero}

FloatValues ==
    UNION {[prec : {p}, sign : {1, -1}, exp : ExpValues,
            limbs : [1..NLimbs(p) -> LimbValues]] : p \in Precisions}

(***************************************************************************)
(* Codec scenario: write a Float, optionally cut the stream, read it back. *)
(***************************************************************************)
CodecInit ==
    /\ pc = "start"
    /\ original \in FloatValues
    /\ buf = <<>>
    /\ restored = NoResult
    /\ CodecOnly

\* write_float(&mut buf, &original)
CodecWrite ==
    /\ pc = "start"
    /\ buf' = write_float(original)
    /\ pc' = "written"
    /\ UNCHANGED <<original, restored>>
    /\ UNCHANGED notCodec

\* the stream is cut to a proper prefix before it is read
CodecTruncate ==
    /\ pc = "written"
    /\ \E n \in 0..(Len(buf) - 1) : buf' = SubSeq(buf, 1, n)
    /\ pc' = "cut"
    /\ UNCHANGED <<original, restored>>
    /\ UNCHANGED notCodec

\* read_float(&mut Cursor::new(buf))
CodecRead ==
    /\ pc \in {"written", "cut"}
    /\ \E uninit \in LimbValues, allocOk \in BOOLEAN :
          restored' = read_float(buf, uninit, allocOk)
    /\ pc' = IF pc = "written" THEN "read" ELSE "readcut"
    /\ UNCHANGED <<original, buf>>
    /\ UNCHANGED notCodec

CodecNext == CodecWrite \/ CodecTruncate \/ CodecRead

SpecCodec == CodecInit /\ [][CodecNext]_vars

\* C1: reading back what write_float wrote gives a Float with the same
\* precision, sign, exponent and significand limbs.
C1_RoundTrip ==
    pc = "read" =>
        /\ restored.kind = "Ok"
        /\ restored.val.prec = original.prec
        /\ restored.val.sign = original.sign
        /\ restored.val.exp = original.exp
        /\ restored.val.limbs = original.limbs

C1_Witness ==
    /\ pc = "read"
    /\ original.prec = 65
    /\ original.sign = -1
    /\ restored.kind = "Ok"

\* C6: read_float on a proper prefix of a write_float stream returns an
\* error (UnexpectedEof from read_exact) and no Float.
C6_TruncatedFloatFails ==
    pc = "readcut" => restored.kind = "UnexpectedEof"

\* a cut inside the limb array, after the four header fields
C6_Witness ==
    /\ pc = "readcut"
    /\ Len(buf) > 21
    /\ restored.kind = "UnexpectedEof"

(***************************************************************************)
(* rugmat_io.rs                                                            *)
(***************************************************************************)
\* Matrices of at most MaxCells elements are saved and loaded.
MaxCells == 3

\* const RUGMAT_MAGIC: &[u8; 6] = b"RUGMAT"
RUGMAT_MAGIC == <<82, 85, 71, 77, 65, 84>>

\* const RUGMAT_VERSION: u8 = 1
RUGMAT_VERSION == 1

\* blake3::Hasher new / update / finalize: a 32-byte digest of the bytes fed
\* to update, in order.  The digest function itself is outside the
\* repository; a two-lane weighted-sum digest stands for it.
RECURSIVE HashLane(_, _, _, _, _)
HashLane(bytes, lo, hi, mult, modulus) ==
    IF lo > hi THEN 0
    ELSE IF lo = hi THEN ((bytes[lo] + 1) * (((lo * mult) % modulus) + 1)) % modulus
    ELSE LET mid == (lo + hi) \div 2
         IN (HashLane(bytes, lo, mid, mult, modulus)
               + HashLane(bytes, mid + 1, hi, mult, modulus)) % modulus

blake3(bytes) ==
    LET h1 == (HashLane(bytes, 1, Len(bytes), 31, 65521) + Len(bytes)) % 65521
        h2 == (HashLane(bytes, 1, Len(bytes), 17, 65519) + 7) % 65519
        w == <<h1 % 256, h1 \div 256, h2 % 256, h2 \div 256>>
    IN [k \in 1..32 |-> (w[(k % 4) + 1] + k) % 256]

\* f.to_digits::<u8>(Round::Nearest): a pair whose second component is the
\* digit bytes.  rug documents no such method on Float; as the call is
\* written, the digits are the significand in base 256, most significant
\* digit first, and sign and exponent travel in the first component.
to_digits(f) ==
    <<[sign |-> f.sign, exp |-> f.exp],
      Flatten([i \in 1..Len(f.limbs) |-> Reverse(W64ToLE(f.limbs[Len(f.limbs) + 1 - i]))])>>

\* Float::with_val(precision, Parse::from_digits(&bytes, 256)): a Float of
\* the header's precision built from the digit bytes alone: positive, the
\* digits read as a base-256 integer, packed into ceil(precision/64) limbs
\* (the limbs of a precision of 2^16 bits or more are not held).
from_digits(bytes, precision) ==
    LET n == NLimbs(precision)
        padded(i) == IF i <= Len(bytes) THEN bytes[i] ELSE 0
        limbAt(i) == W64FromLE([k \in 1..8 |-> padded(8 * (n - i) + 9 - k)])
        zero == \A i \in 1..Len(bytes) : bytes[i] = 0
    IN [prec |-> precision,
        sign |-> 1,
        exp |-> IF zero THEN ExpZero ELSE W64OfNat(8 * Len(bytes)),
        limbs |-> IF precision = Huge THEN <<>> ELSE [i \in 1..n |-> limbAt(i)]]

\* one turn of `for f in &self.data`: the bytes written for f, which are
\* also the bytes fed to the hasher
EntryBytes(f) ==
    LET bytes == to_digits(f)[2]
    IN W64ToLE(W64OfNat(Len(bytes))) \o bytes

\* what save_to_file writes before it reads self.data[0]
SaveHeader(m) ==
    RUGMAT_MAGIC \o <<RUGMAT_VERSION>> \o W64ToLE(W64OfNat(m.rows)) \o W64ToLE(W64OfNat(m.cols))

\* save_to_file: the file's bytes, or the panic of self.data[0] on a matrix
\* without elements (the BufWriter flushes what was written when dropped)
save_to_file(m) ==
    IF Len(m.data) = 0
    THEN [kind |-> "Panic", file |-> SaveHeader(m)]
    ELSE LET entries == Flatten([i \in 1..Len(m.data) |-> EntryBytes(m.data[i])])
         IN [kind |-> "Ok",
             file |-> SaveHeader(m) \o U32ToLE(m.data[1].prec) \o entries \o blake3(entries)]

\* `rows * cols`, the capacity and the loop bound 0..(rows * cols): the
\* product of the two header words as usize arithmetic computes it
EntryCount(rows, cols) ==
    [count |-> NatOfW64(W64Mul(rows, cols).product),
     overflow |-> W64Mul(rows, cols).overflow]

\* the loop of load_from_file over the rows * cols entries
RECURSIVE ReadEntries(_, _, _, _, _, _, _)
ReadEntries(s, pos, n, precision, data, hashed, allocOk) ==
    IF n = 0 THEN [kind |-> "Ok", data |-> data, hashed |-> hashed, pos |-> pos]
    ELSE
    LET r1 == read_exact(s, pos, 8)
        len == NatOfW64(W64FromLE(r1.bytes))
        r2 == read_exact(s, r1.pos, len)
    IN  IF ~r1.ok THEN EofError
        ELSE IF len = Huge THEN (IF allocOk THEN EofError ELSE [kind |-> "Abort"])
        ELSE IF ~r2.ok THEN EofError
        ELSE IF precision = 0 THEN [kind |-> "Panic"]  \* Float::with_val(0, ..)
        ELSE ReadEntries(s, r2.pos, n - 1, precision,
                         Append(data, from_digits(r2.bytes, precision)),
                         hashed \o r1.bytes \o r2.bytes, allocOk)

InvalidData(msg) == [kind |-> "InvalidData", msg |-> msg]

ChecksumCheck_skipped(actual, expected) == TRUE

\* if checksum_actual != checksum_expected { return Err(..) }
ChecksumCheck(actual, expected) == actual = expected

\* the precision field, for the values the model's floats hold (below 2^16)
HeaderPrecision(b) == IF b[3] = 0 /\ b[4] = 0 THEN U32FromLE(b) ELSE Huge

\* load_from_file.  `allocOk`: whether an allocation of 2^31 bytes or more
\* is granted.  `overflow_checks`: whether the build panics on arithmetic
\* overflow (the debug profile) or wraps (the release profile).
load_from_file(s, allocOk, overflow_checks) ==
    LET rm == read_exact(s, 0, 6)
        rv == read_exact(s, rm.pos, 1)
        rr == read_exact(s, rv.pos, 8)
        rc == read_exact(s, rr.pos, 8)
        rp == read_exact(s, rc.pos, 4)
    IN  IF ~rm.ok THEN EofError
        ELSE IF rm.bytes # RUGMAT_MAGIC THEN InvalidData("Bad magic header")
        ELSE IF ~rv.ok THEN EofError
        ELSE IF rv.bytes[1] # RUGMAT_VERSION THEN InvalidData("Unsupported version")
        ELSE IF ~rr.ok \/ ~rc.ok \/ ~rp.ok THEN EofError
        ELSE
        LET rows == NatOfW64(W64FromLE(rr.bytes))
            cols == NatOfW64(W64FromLE(rc.bytes))
            precision == HeaderPrecision(rp.bytes)
            product == EntryCount(W64FromLE(rr.bytes), W64FromLE(rc.bytes))
            count == product.count
        IN  IF product.overflow /\ overflow_checks THEN [kind |-> "Panic"]
            ELSE IF count = Huge THEN (IF allocOk THEN EofError ELSE [kind |-> "Abort"])
            ELSE
            LET re == ReadEntries(s, rp.pos, count, precision, <<>>, <<>>, allocOk)
                rt == read_exact(s, re.pos, 32)
            IN  IF re.kind # "Ok" THEN re
                ELSE IF ~rt.ok THEN EofError
                ELSE IF ~ChecksumCheck(blake3(re.hashed), rt.bytes)
                     THEN InvalidData("Checksum mismatch")
                ELSE [kind |-> "Ok",
                      mat |-> [data |-> re.data, rows |-> rows, cols |-> cols],
                      pos |-> rt.pos]

(***************************************************************************)
(* The matrices the file scenarios draw from.                              *)
(***************************************************************************)
ZeroLimb == <<0, 0, 0, 0>>
TopLimb == <<32768, 0, 0, 0>>

\* 1 and -1 at 64 bits, 3 at 128 bits
FileElements ==
    {[prec |-> 64, sign |-> 1, exp |-> <<0, 0, 0, 1>>, limbs |-> <<TopLimb>>],
     [prec |-> 64, sign |-> -1, exp |-> <<0, 0, 0, 1>>, limbs |-> <<TopLimb>>],
     [prec |-> 128, sign |-> 1, exp |-> <<0, 0, 0, 2>>, limbs |-> <<ZeroLimb, <<49152, 0, 0, 0>>>>]}

FileShapes ==
    {<<r, c>> \in (0..MaxCells) \X (0..MaxCells) : r * c <= MaxCells /\ (r * c = 0 => r + c <= 1)}

FileMatrices ==
    UNION {[data : [1..(sh[1] * sh[2]) -> FileElements], rows : {sh[1]}, cols : {sh[2]}] :
             sh \in FileShapes}

\* bytes a corrupted position is given
Damage(b) == {(b + 1) % 256, 255 - b}

(***************************************************************************)
(* File scenario: save a matrix, optionally damage the file, load it.      *)
(***************************************************************************)
IoInit ==
    /\ pc = "io_start"
    /\ mat \in FileMatrices
    /\ file = <<>>
    /\ edit = NoEdit
    /\ loaded = NoResult
    /\ IoOnly

\* mat.save_to_file(path)
IoSave ==
    /\ pc = "io_start"
    /\ LET r == save_to_file(mat)
       IN /\ file' = r.file
          /\ pc' = IF r.kind = "Ok" THEN "saved" ELSE "save_panicked"
    /\ UNCHANGED <<mat, edit, loaded>>
    /\ UNCHANGED notIo

\* the file is cut at byte position n
IoTruncate ==
    /\ pc = "saved"
    /\ \E n \in 0..(Len(file) - 1) :
          /\ file' = SubSeq(file, 1, n)
          /\ edit' = [kind |-> "truncate", at |-> n]
    /\ pc' = "edited"
    /\ UNCHANGED <<mat, loaded>>
    /\ UNCHANGED notIo

\* one byte of the 32-byte checksum trailer is changed
IoFlipTrailer ==
    /\ pc = "saved"
    /\ \E i \in (Len(file) - 31)..Len(file) : \E b \in Damage(file[i]) :
          /\ file' = [file EXCEPT ![i] = b]
          /\ edit' = [kind |-> "trailer", at |-> i]
    /\ pc' = "edited"
    /\ UNCHANGED <<mat, loaded>>
    /\ UNCHANGED notIo

\* one byte of the magic is changed
IoBadMagic ==
    /\ pc = "saved"
    /\ \E i \in 1..6 : \E b \in Damage(file[i]) :
          /\ file' = [file EXCEPT ![i] = b]
          /\ edit' = [kind |-> "magic", at |-> i]
    /\ pc' = "edited"
    /\ UNCHANGED <<mat, loaded>>
    /\ UNCHANGED notIo

\* the version byte is changed, in a file whose magic may be damaged already
IoBadVersion ==
    /\ \/ pc = "saved"
       \/ pc = "edited" /\ edit.kind = "magic"
    /\ \E b \in Damage(file[7]) :
          /\ file' = [file EXCEPT ![7] = b]
          /\ edit' = [kind |-> IF edit.kind = "magic" THEN "magic+version" ELSE "version",
                      at |-> 7]
    /\ pc' = "edited"
    /\ UNCHANGED <<mat, loaded>>
    /\ UNCHANGED notIo

\* one byte of the rows, cols or precision field (offsets 8 to 27, counted
\* from 1) or of an entry is changed
IoFlipBody ==
    /\ pc = "saved"
    /\ \E i \in 8..(Len(file) - 32) : \E b \in Damage(file[i]) :
          /\ file' = [file EXCEPT ![i] = b]
          /\ edit' = [kind |-> IF i <= 27 THEN "header" ELSE "entry", at |-> i]
    /\ pc' = "edited"
    /\ UNCHANGED <<mat, loaded>>
    /\ UNCHANGED notIo

\* header dimensions whose product is 2^64 or more: 2^32 * 2^32 and 2^63 * 2
\* (0 modulo 2^64), 3 * 0xAAAAAAAAAAAAAAAB (1 modulo 2^64), (2^63 + 1) * 2
\* (2 modulo 2^64); and 2^32 * 0, whose product is 0
ForgedDims ==
    {<<<<0, 1, 0, 0>>, <<0, 1, 0, 0>>>>,
     <<<<32768, 0, 0, 0>>, <<0, 0, 0, 2>>>>,
     <<<<0, 0, 0, 3>>, <<43690, 43690, 43690, 43691>>>>,
     <<<<32768, 0, 0, 1>>, <<0, 0, 0, 2>>>>,
     <<<<0, 1, 0, 0>>, <<0, 0, 0, 0>>>>}

\* a file in the layout load_from_file reads, written by another program:
\* the header words rows and cols, the entries of m and their digest
ForgedFile(rows, cols, m) ==
    LET entries == Flatten([i \in 1..Len(m.data) |-> EntryBytes(m.data[i])])
    IN RUGMAT_MAGIC \o <<RUGMAT_VERSION>> \o W64ToLE(rows) \o W64ToLE(cols)
         \o U32ToLE(IF Len(m.data) = 0 THEN 64 ELSE m.data[1].prec)
         \o entries \o blake3(entries)

\* the file at `path` was not written by save_to_file
IoForge ==
    /\ pc = "io_start"
    /\ \E d \in ForgedDims :
          /\ file' = ForgedFile(d[1], d[2], mat)
          /\ edit' = [kind |-> "forged", at |-> 0, rows |-> d[1], cols |-> d[2]]
    /\ pc' = "edited"
    /\ UNCHANGED <<mat, loaded>>
    /\ UNCHANGED notIo

\* RugMat::load_from_file(path)
IoLoad ==
    /\ pc \in {"saved", "edited"}
    /\ \E allocOk \in BOOLEAN : \E overflow_checks \in BOOLEAN :
          loaded' = load_from_file(file, allocOk, overflow_checks)
    /\ pc' = "loaded"
    /\ UNCHANGED <<mat, file, edit>>
    /\ UNCHANGED notIo

IoNext == IoSave \/ IoTruncate \/ IoFlipTrailer \/ IoBadMagic \/ IoBadVersion \/ IoLoad

SpecIO == IoInit /\ [][IoNext]_vars

\* the layout section 6 of the specification gives: no precision field, and
\* each entry the write_float encoding of the element
ClaimedLayout(m) ==
    LET entries == Flatten([i \in 1..Len(m.data) |->
                      W64ToLE(W64OfNat(Len(write_float(m.data[i])))) \o write_float(m.data[i])])
    IN RUGMAT_MAGIC \o <<1>> \o W64ToLE(W64OfNat(m.rows)) \o W64ToLE(W64OfNat(m.cols))
         \o entries \o blake3(entries)

\* C2: loading the file save_to_file wrote succeeds and returns a matrix
\* with the same rows and cols and, element by element, the same value
\* (sign and exponent included) and precision.
C2_PersistenceRoundTrip ==
    (pc = "loaded" /\ edit.kind = "none") =>
        /\ loaded.kind = "Ok"
        /\ loaded.mat.rows = mat.rows
        /\ loaded.mat.cols = mat.cols
        /\ Len(loaded.mat.data) = Len(mat.data)
        /\ \A k \in 1..Len(mat.data) : loaded.mat.data[k] = mat.data[k]

\* C3: the bytes save_to_file writes are magic, version 1, rows, cols, then
\* per element entry_len and the write_float encoding, then the checksum,
\* with nothing in between.
C3_FileLayout ==
    pc = "saved" => file = ClaimedLayout(mat)

\* C4: load_from_file returns a matrix only when magic, version and checksum
\* all pass, checked in that order; a failed check is InvalidData with the
\* message of the first check that fails, and a changed trailer byte is a
\* checksum mismatch.
C4_LoadChecks ==
    pc = "loaded" =>
        /\ edit.kind \in {"magic", "magic+version"} => loaded = InvalidData("Bad magic header")
        /\ edit.kind = "version" => loaded = InvalidData("Unsupported version")
        /\ edit.kind = "trailer" => loaded = InvalidData("Checksum mismatch")
        /\ loaded.kind = "Ok" =>
              /\ SubSeq(file, 1, 6) = RUGMAT_MAGIC
              /\ file[7] = RUGMAT_VERSION
              /\ SubSeq(file, loaded.pos - 31, loaded.pos)
                   = blake3(SubSeq(file, 28, loaded.pos - 32))

C4_Witness ==
    /\ pc = "loaded"
    /\ edit.kind = "trailer"
    /\ loaded = InvalidData("Checksum mismatch")

\* C5: a saved file cut before the end of its last entry makes
\* load_from_file return the UnexpectedEof error of read_exact: no panic, no
\* matrix.
C5_TruncatedFileFails ==
    (pc = "loaded" /\ edit.kind = "truncate"
        /\ edit.at < Len(save_to_file(mat).file) - 32)
    => loaded.kind = "UnexpectedEof"

\* a cut inside the entries, after the header
C5_Witness ==
    /\ pc = "loaded"
    /\ edit.kind = "truncate"
    /\ edit.at > 27
    /\ edit.at < Len(save_to_file(mat).file) - 32
    /\ loaded.kind = "UnexpectedEof"

(***************************************************************************)
(* File scenario with files load_from_file did not get from save_to_file   *)
(* unchanged: one byte after the version differs, or the header carries    *)
(* dimensions of another program's choosing.                               *)
(***************************************************************************)
\* Matrices of at most MaxTamperCells elements are written to these files.
MaxTamperCells == 2

TamperInit ==
    /\ IoInit
    /\ Len(mat.data) <= MaxTamperCells

TamperNext == IoSave \/ IoFlipBody \/ IoFlipTrailer \/ IoForge \/ IoLoad

SpecTamper == TamperInit /\ [][TamperNext]_vars

\* whether data.len() is the mathematical product of rows and cols
ExactShape(m) ==
    IF m.rows = 0 \/ m.cols = 0 THEN Len(m.data) = 0
    ELSE /\ m.rows # Huge /\ m.cols # Huge
         /\ m.rows <= Len(m.data) /\ m.cols <= Len(m.data)
         /\ m.rows * m.cols = Len(m.data)

\* C24: every matrix load_from_file returns has data.len() equal to the
\* mathematical product rows * cols; a file whose header dimensions multiply to
\* 2^64 or more gives an error or such a matrix, and neither panics nor
\* aborts.
C24_ExactEntryCount ==
    pc = "loaded" =>
        /\ loaded.kind = "Ok" => ExactShape(loaded.mat)
        /\ (edit.kind = "forged" /\ W64Mul(edit.rows, edit.cols).overflow) =>
               loaded.kind \in {"Ok", "UnexpectedEof", "InvalidData"}

\* C25: a file that differs from the saved one in a single byte of the rows,
\* cols or precision field, of an entry or of the trailer makes load_from_file
\* return an error.
C25_SingleByteDetected ==
    (pc = "loaded" /\ edit.kind \in {"header", "entry", "trailer"}) =>
        loaded.kind \in {"UnexpectedEof", "InvalidData"}

(***************************************************************************)
(* rugmat.rs: the matrix container.                                        *)
(*                                                                         *)
(* In the scenarios below a Float is [val, prec]: an integer value and the *)
(* precision it is held at.  A RugMat is [data, rows, cols], data being    *)
(* the flat Vec<Float> (index 0 of the Vec is data[1]).                    *)
(***************************************************************************)
\* Rows and columns of the matrices the constructors are given.
MaxDim == 2

Abs(x) == IF x < 0 THEN -x ELSE x

RECURSIVE BitLen(_)
BitLen(n) == IF n = 0 THEN 0 ELSE 1 + BitLen(n \div 2)

\* rounding of an integer to `prec` significant bits, to nearest, ties to even
RoundTo(x, prec) ==
    IF prec >= 31 \/ BitLen(Abs(x)) <= prec THEN x
    ELSE LET unit == 2 ^ (BitLen(Abs(x)) - prec)
             q == Abs(x) \div unit
             r == Abs(x) % unit
             up == 2 * r > unit \/ (2 * r = unit /\ q % 2 = 1)
             mag == (IF up THEN q + 1 ELSE q) * unit
         IN IF x < 0 THEN -mag ELSE mag

\* Float::with_val(precision, x)
with_val(precision, x) == [val |-> RoundTo(x, precision), prec |-> precision]

\* the panic of an out-of-bounds Vec index
Panicked == [kind |-> "Panic"]

\* RugMat::new
new(rows, cols, precision) ==
    [data |-> [x \in 1..(rows * cols) |-> with_val(precision, 0)],
     rows |-> rows, cols |-> cols]

\* RugMat::from_2d_vec: the pushes of `for j in 0..cols { for i in 0..rows`
\* put vv[i][j] at Vec index j * rows + i
from_2d_vec(vv) ==
    LET rows == Len(vv)
        cols == Len(vv[1])
    IN [data |-> [x \in 1..(rows * cols) |-> vv[((x - 1) % rows) + 1][((x - 1) \div rows) + 1]],
        rows |-> rows, cols |-> cols]

\* RugMat::get
get(m, row, col) ==
    IF col * m.rows + row < Len(m.data) THEN m.data[col * m.rows + row + 1] ELSE Panicked

\* RugMat::get_mut, followed by a store through the reference
get_mut(m, row, col, val) ==
    IF col * m.rows + row < Len(m.data)
    THEN [m EXCEPT !.data[col * m.rows + row + 1] = val] ELSE Panicked

\* Index<(usize, usize)>::index
index(m, i, j) ==
    IF j * m.rows + i < Len(m.data) THEN m.data[j * m.rows + i + 1] ELSE Panicked

index_mut_rowmajor(m, i, j, val) ==
    IF m = Panicked THEN Panicked
    ELSE IF i * m.cols + j < Len(m.data)
    THEN [m EXCEPT !.data[i * m.cols + j + 1] = val] ELSE Panicked

\* IndexMut<(usize, usize)>::index_mut, followed by the store `mat[(i, j)] = val`
index_mut(m, i, j, val) ==
    IF m = Panicked THEN Panicked
    ELSE IF j * m.rows + i < Len(m.data)
    THEN [m EXCEPT !.data[j * m.rows + i + 1] = val] ELSE Panicked

\* `for i in 0..size { mat[(i, i)] = vals[i] }`
RECURSIVE FillDiagonal(_, _, _)
FillDiagonal(m, i, vals) ==
    IF i >= Len(vals) THEN m
    ELSE FillDiagonal(index_mut(m, i, i, vals[i + 1]), i + 1, vals)

\* RugMat::identity
identity(size, precision) ==
    FillDiagonal(new(size, size, precision), 0, [i \in 1..size |-> with_val(precision, 1)])

\* RugMat::diagonal_from_f64
diagonal_from_f64(diag, precision) ==
    FillDiagonal(new(Len(diag), Len(diag), precision), 0,
                 [i \in 1..Len(diag) |-> with_val(precision, diag[i])])

\* the nested loops of from_vecvec: every val of every row, in row order
RECURSIVE FillFrom(_, _, _, _)
FillFrom(m, vv, i, j) ==
    IF i >= Len(vv) THEN m
    ELSE IF j >= Len(vv[i + 1]) THEN FillFrom(m, vv, i + 1, 0)
    ELSE FillFrom(index_mut(m, i, j, vv[i + 1][j + 1]), vv, i, j + 1)

\* RugMat::from_vecvec
from_vecvec(vv) ==
    LET rows == Len(vv)
        cols == Len(vv[1])
        precision == vv[1][1].prec
    IN FillFrom(new(rows, cols, precision), vv, 0, 0)

(***************************************************************************)
(* Constructor scenario: build a matrix with every constructor from one    *)
(* input, then read or write one element of one of them.                   *)
(***************************************************************************)
Ctors == {"new", "from_2d_vec", "from_vecvec", "identity", "diagonal_from_f64"}

NotBuilt == [kind |-> "NotBuilt"]

CtorElements == {with_val(64, 5), with_val(128, 7)}

\* rectangular inputs of 1..MaxDim rows and 1..MaxDim columns
CtorInputs ==
    UNION {[1..r -> [1..c -> CtorElements]] : r \in 1..MaxDim, c \in 1..MaxDim}

\* the diagonal handed to diagonal_from_f64: the first column's values
DiagOf(vv) == [i \in 1..Len(vv) |-> vv[i][1].val]

CtorInit ==
    /\ pc = "ctor_build"
    /\ input \in CtorInputs
    /\ built = [c \in Ctors |-> NotBuilt]
    /\ target = NotBuilt
    /\ access = NoResult
    /\ CtorOnly

Build(c, m) ==
    /\ pc = "ctor_build"
    /\ built[c] = NotBuilt
    /\ built' = [built EXCEPT ![c] = m]
    /\ UNCHANGED <<pc, input, target, access>>
    /\ UNCHANGED notCtor

CtorNew == Build("new", new(Len(input), Len(input[1]), input[1][1].prec))

CtorFrom2dVec == Build("from_2d_vec", from_2d_vec(input))

CtorFromVecvec == Build("from_vecvec", from_vecvec(input))

CtorIdentity == Build("identity", identity(Len(input), input[1][1].prec))

CtorDiagonal == Build("diagonal_from_f64", diagonal_from_f64(DiagOf(input), input[1][1].prec))

\* mat.get(i, j) or mat[(i, j)] on one of the matrices, i < rows, j < cols
CtorRead ==
    /\ pc = "ctor_build"
    /\ \A c \in Ctors : built[c] # NotBuilt
    /\ \E c \in Ctors : \E i \in 0..(built[c].rows - 1) : \E j \in 0..(built[c].cols - 1) :
       \E via \in {"get", "index"} :
          /\ target' = built[c]
          /\ access' = [op |-> via, of |-> c, i |-> i, j |-> j,
                        got |-> IF via = "get" THEN get(built[c], i, j)
                                ELSE index(built[c], i, j)]
    /\ pc' = "ctor_done"
    /\ UNCHANGED <<input, built>>
    /\ UNCHANGED notCtor

\* *mat.get_mut(i, j) = 9 or mat[(i, j)] = 9 on one of the matrices
CtorWrite ==
    /\ pc = "ctor_build"
    /\ \A c \in Ctors : built[c] # NotBuilt
    /\ \E c \in Ctors : \E i \in 0..(built[c].rows - 1) : \E j \in 0..(built[c].cols - 1) :
       \E via \in {"get_mut", "index_mut"} :
          /\ target' = IF via = "get_mut" THEN get_mut(built[c], i, j, with_val(64, 9))
                       ELSE index_mut(built[c], i, j, with_val(64, 9))
          /\ access' = [op |-> via, of |-> c, i |-> i, j |-> j, got |-> with_val(64, 9)]
    /\ pc' = "ctor_done"
    /\ UNCHANGED <<input, built>>
    /\ UNCHANGED notCtor

CtorNext ==
    \/ CtorNew \/ CtorFrom2dVec \/ CtorFromVecvec \/ CtorIdentity \/ CtorDiagonal
    \/ CtorRead \/ CtorWrite

SpecCtor == CtorInit /\ [][CtorNext]_vars

\* C7: every constructed matrix holds rows * cols elements; element (i, j)
\* of a matrix is the one at flat index j * rows + i for get, get_mut, Index
\* and IndexMut; from_2d_vec and from_vecvec of one rectangular input give
\* the same rows, cols and flat data, holding input row i, column j at (i, j).
C7_ColumnMajor ==
    /\ pc \in {"ctor_build", "ctor_done"} =>
          \A c \in Ctors : built[c] # NotBuilt =>
              /\ built[c] # Panicked
              /\ Len(built[c].data) = built[c].rows * built[c].cols
    /\ (pc \in {"ctor_build", "ctor_done"} /\ built["from_2d_vec"] # NotBuilt) =>
          /\ built["from_2d_vec"].rows = Len(input)
          /\ built["from_2d_vec"].cols = Len(input[1])
          /\ \A i \in 0..(Len(input) - 1) : \A j \in 0..(Len(input[1]) - 1) :
                built["from_2d_vec"].data[j * Len(input) + i + 1] = input[i + 1][j + 1]
    /\ (pc \in {"ctor_build", "ctor_done"} /\ built["from_2d_vec"] # NotBuilt
          /\ built["from_vecvec"] # NotBuilt) =>
          built["from_vecvec"] = built["from_2d_vec"]
    /\ (pc \in {"ctor_build", "ctor_done"} /\ built["identity"] # NotBuilt) =>
          \A i \in 0..(Len(input) - 1) : \A j \in 0..(Len(input) - 1) :
              built["identity"].data[j * Len(input) + i + 1].val = (IF i = j THEN 1 ELSE 0)
    /\ (pc \in {"ctor_build", "ctor_done"} /\ built["diagonal_from_f64"] # NotBuilt) =>
          \A i \in 0..(Len(input) - 1) : \A j \in 0..(Len(input) - 1) :
              built["diagonal_from_f64"].data[j * Len(input) + i + 1].val
                  = (IF i = j THEN input[i + 1][1].val ELSE 0)
    /\ (pc = "ctor_done" /\ access.op \in {"get", "index"}) =>
          access.got = built[access.of].data[access.j * built[access.of].rows + access.i + 1]
    /\ (pc = "ctor_done" /\ access.op \in {"get_mut", "index_mut"}) =>
          target = [built[access.of] EXCEPT
                      !.data[access.j * built[access.of].rows + access.i + 1] = access.got]

\* a 2 x 2 input that is not symmetric, built both ways, element (1, 0) read
C7_Witness ==
    /\ pc = "ctor_done"
    /\ Len(input) = 2
    /\ Len(input[1]) = 2
    /\ input[1][2] # input[2][1]
    /\ built["from_vecvec"] = built["from_2d_vec"]
    /\ access.op = "index"
    /\ access.i = 1
    /\ access.j = 0
    /\ access.got = input[2][1]

(***************************************************************************)
(* Access scenario: one element access on a matrix, with coordinates up to *)
(* one past the last row and the last column.                              *)
(***************************************************************************)
\* Transpose::get on Transpose { mat: m }
Transpose_get(m, i, j) == index(m, j, i)

AccessInit ==
    /\ pc = "access_start"
    /\ input \in CtorInputs
    /\ built = <<>>
    /\ target = from_2d_vec(input)
    /\ access = NoResult
    /\ CtorOnly

Accessed(via, row, col, outcome) ==
    /\ pc = "access_start"
    /\ access' = [op |-> via, i |-> row, j |-> col, got |-> outcome]
    /\ pc' = "access_done"
    /\ UNCHANGED <<input, built, target>>
    /\ UNCHANGED notCtor

\* mat.get(row, col)
AccessGet ==
    \E row \in 0..target.rows : \E col \in 0..target.cols :
        Accessed("get", row, col, get(target, row, col))

\* *mat.get_mut(row, col) = 9
AccessGetMut ==
    \E row \in 0..target.rows : \E col \in 0..target.cols :
        Accessed("get_mut", row, col, get_mut(target, row, col, with_val(64, 9)))

\* mat[(i, j)]
AccessIndex ==
    \E i \in 0..target.rows : \E j \in 0..target.cols :
        Accessed("index", i, j, index(target, i, j))

\* mat[(i, j)] = 9
AccessIndexMut ==
    \E i \in 0..target.rows : \E j \in 0..target.cols :
        Accessed("index_mut", i, j, index_mut(target, i, j, with_val(64, 9)))

\* Transpose::new(&mat).get(i, j), i up to mat.cols and j up to mat.rows
AccessTransposeGet ==
    \E i \in 0..target.cols : \E j \in 0..target.rows :
        Accessed("transpose_get", i, j, Transpose_get(target, i, j))

AccessNext ==
    AccessGet \/ AccessGetMut \/ AccessIndex \/ AccessIndexMut \/ AccessTransposeGet

SpecAccess == AccessInit /\ [][AccessNext]_vars

\* C26: get, get_mut, Index and IndexMut fail when row >= rows or when
\* col >= cols, each coordinate checked on its own, and Transpose::get fails
\* when i >= mat.cols or j >= mat.rows.
C26_PerCoordinateBounds ==
    pc = "access_done" =>
        /\ (access.op # "transpose_get"
              /\ (access.i >= target.rows \/ access.j >= target.cols)) =>
               access.got = Panicked
        /\ (access.op = "transpose_get"
              /\ (access.i >= target.cols \/ access.j >= target.rows)) =>
               access.got = Panicked

(***************************************************************************)
(* rugmat.rs: matmul                                                       *)
(***************************************************************************)
\* The contraction dimension k runs to MaxK: past one full block of 32.
MaxK == 33

\* Rows of `self` and columns of `other` in the generated products.
MaxSide == 2

\* let block_size = 32
block_size == 32

Min(x, y) == IF x < y THEN x ELSE y

\* acc += a * b: the product added into acc at acc's precision
MulAdd(acc, a, b) == with_val(acc.prec, acc.val + a.val * b.val)

\* `for l in l_block..l_max { for i in 0..m { acc[i] += self[(i, l)] * other[(l, j)] } }`
RECURSIVE AccumulateBlock(_, _, _, _, _, _)
AccumulateBlock(A, B, j, acc, l, l_max) ==
    IF l >= l_max THEN acc
    ELSE AccumulateBlock(A, B, j,
                         [i \in 1..Len(acc) |-> MulAdd(acc[i], index(A, i - 1, l), index(B, l, j))],
                         l + 1, l_max)

MoreBlocks_fullonly(l_block, k) == l_block + block_size <= k

\* `for l_block in (0..k).step_by(block_size)`: whether l_block is yielded
MoreBlocks(l_block, k) == l_block < k

InChunk_overlapping(x, j, m) == (x - 1) \div m <= j

\* par_chunks_mut(m).enumerate(): whether Vec slot x (from 1) is in chunk j
InChunk(x, j, m) == (x - 1) \div m = j

\* the state of the closure that for_each runs on chunk j
MatmulWorker(m, precision) ==
    [l_block |-> 0,
     acc |-> [i \in 1..m |-> with_val(precision, 0)],
     visited |-> <<>>,
     stored |-> FALSE]

(***************************************************************************)
(* The operands of the products.                                           *)
(***************************************************************************)
\* a rows x cols matrix of values in -2..2 at `prec` bits
GenMat(rows, cols, seed, prec) ==
    from_2d_vec([i \in 1..rows |-> [j \in 1..cols |-> with_val(prec, ((i + 2 * j + seed) % 5) - 2)]])

IntRows(rowsOfInts, prec) ==
    [i \in 1..Len(rowsOfInts) |-> [j \in 1..Len(rowsOfInts[i]) |-> with_val(prec, rowsOfInts[i][j])]]

\* test_matmul_known
KnownA == from_vecvec(IntRows(<<<<1, 2>>, <<0, 1>>>>, 128))
KnownB == from_vecvec(IntRows(<<<<3, 4>>, <<5, 6>>>>, 128))
KnownAB == from_vecvec(IntRows(<<<<13, 16>>, <<5, 6>>>>, 128))

\* test_matmul_identity, test_norms_simple_matrix
Simple1234 == from_vecvec(IntRows(<<<<1, 2>>, <<3, 4>>>>, 128))

MatmulInputs ==
    {<<KnownA, KnownB>>, <<Simple1234, identity(2, 128)>>}
    \cup {<<GenMat(m, k, s, 64), identity(k, 64)>> : m \in 1..MaxSide, k \in 1..(MaxSide + 1), s \in {0, 1}}
    \cup {<<GenMat(m, k, sa, 64), GenMat(k, n, sb, 128)>> :
            m \in 1..MaxSide, k \in 1..MaxK, n \in 1..MaxSide, sa \in {0, 1}, sb \in {0, 3}}

(***************************************************************************)
(* matmul scenario: self.matmul(&other), one closure per result column.    *)
(***************************************************************************)
MatmulInit ==
    /\ pc = "matmul"
    /\ \E pair \in MatmulInputs : matA = pair[1] /\ operand = pair[2]
    /\ workers = [j \in 0..(operand.cols - 1) |-> MatmulWorker(matA.rows, matA.data[1].prec)]
    \* vec![Float::with_val(precision, 0); m * n]
    /\ output = [x \in 1..(matA.rows * operand.cols) |-> with_val(matA.data[1].prec, 0)]
    /\ KernelOnly

\* the closure of column j runs one turn of its l_block loop
MatmulBlock ==
    /\ pc = "matmul"
    /\ \E j \in DOMAIN workers :
        LET w == workers[j]
            k == matA.cols
            l_max == Min(w.l_block + block_size, k)
        IN /\ ~w.stored
           /\ MoreBlocks(w.l_block, k)
           /\ workers' = [workers EXCEPT ![j] =
                 [w EXCEPT !.acc = AccumulateBlock(matA, operand, j, w.acc, w.l_block, l_max),
                           !.visited = w.visited \o [x \in 1..(l_max - w.l_block) |-> w.l_block + x - 1],
                           !.l_block = w.l_block + block_size]]
    /\ UNCHANGED <<pc, matA, operand, output>>
    /\ UNCHANGED notKernel

\* the closure of column j leaves its loop: `for i in 0..m { col[i] = acc[i].clone() }`
MatmulStore ==
    /\ pc = "matmul"
    /\ \E j \in DOMAIN workers :
        LET w == workers[j]
            m == matA.rows
        IN /\ ~w.stored
           /\ ~MoreBlocks(w.l_block, matA.cols)
           /\ output' = [x \in 1..Len(output) |->
                            IF InChunk(x, j, m) THEN w.acc[((x - 1) % m) + 1] ELSE output[x]]
           /\ workers' = [workers EXCEPT ![j].stored = TRUE]
    /\ UNCHANGED <<pc, matA, operand>>
    /\ UNCHANGED notKernel

\* for_each has returned: result.data = result_data; result
MatmulReturn ==
    /\ pc = "matmul"
    /\ \A j \in DOMAIN workers : workers[j].stored
    /\ output' = [data |-> output, rows |-> matA.rows, cols |-> operand.cols]
    /\ pc' = "matmul_done"
    /\ UNCHANGED <<matA, operand, workers>>
    /\ UNCHANGED notKernel

MatmulNext == MatmulBlock \/ MatmulStore \/ MatmulReturn

SpecMatmul == MatmulInit /\ [][MatmulNext]_vars

\* the sum of terms[lo..hi]
RECURSIVE SumSeq(_, _, _)
SumSeq(terms, lo, hi) ==
    IF lo > hi THEN 0
    ELSE IF lo = hi THEN terms[lo]
    ELSE SumSeq(terms, lo, (lo + hi) \div 2) + SumSeq(terms, ((lo + hi) \div 2) + 1, hi)

\* sum over l in 0..k of A[i, l] * B[l, j]
ProductEntry(A, B, i, j) ==
    SumSeq([x \in 1..A.cols |-> A.data[(x - 1) * A.rows + i + 1].val
                                  * B.data[j * B.rows + x].val], 1, A.cols)

\* C8: matmul(A, B) has A's rows and B's columns and entry (i, j) equal to
\* the sum over l of A[i, l] * B[l, j]; each column's blocked loop visits
\* l = 0, 1, .., k - 1 once each; so M * I = M and the known product holds.
C8_Matmul ==
    pc = "matmul_done" =>
        /\ output.rows = matA.rows
        /\ output.cols = operand.cols
        /\ Len(output.data) = matA.rows * operand.cols
        /\ \A i \in 0..(matA.rows - 1) : \A j \in 0..(operand.cols - 1) :
              /\ output.data[j * matA.rows + i + 1].val = ProductEntry(matA, operand, i, j)
              /\ output.data[j * matA.rows + i + 1].prec = matA.data[1].prec
        /\ \A j \in DOMAIN workers : workers[j].visited = [x \in 1..matA.cols |-> x - 1]
        /\ operand = identity(matA.cols, operand.data[1].prec) =>
              \A x \in 1..Len(matA.data) : output.data[x].val = matA.data[x].val
        /\ (matA = KnownA /\ operand = KnownB) => output = KnownAB

\* a product whose k = 33 is one full block and a partial block
C8_Witness ==
    /\ pc = "matmul_done"
    /\ matA.cols = 33
    /\ matA.rows = 2
    /\ operand.cols = 2
    /\ output.data[1].val # 0

(***************************************************************************)
(* rugmat.rs: matmul_vec                                                   *)
(***************************************************************************)
\* Rows and columns of the matrices of the matrix-vector products.
MaxVecDim == 3

\* `for j in from..self.cols { sum += &self[(i, j)] * &v[j] }`
RECURSIVE RowLoop(_, _, _, _, _)
RowLoop(A, v, i, j, sum) ==
    IF j >= A.cols THEN sum
    ELSE RowLoop(A, v, i, j + 1, MulAdd(sum, index(A, i, j), v[j + 1]))

RowDot_skipfirst(A, v, i) == RowLoop(A, v, i, 1, with_val(A.data[1].prec, 0))

\* the closure of map: let mut sum = Float::with_val(precision, 0); the loop
\* over j in 0..self.cols; sum
RowDot(A, v, i) == RowLoop(A, v, i, 0, with_val(A.data[1].prec, 0))

GenVec(n, seed, prec) == [j \in 1..n |-> with_val(prec, ((2 * j + seed) % 5) - 2)]

\* test_matmul_vec_known
KnownM == from_vecvec(IntRows(<<<<2, 0>>, <<1, 3>>>>, 128))
KnownV == <<with_val(128, 1), with_val(128, 2)>>
KnownMV == <<with_val(128, 2), with_val(128, 7)>>

MatvecInputs ==
    {<<KnownM, KnownV>>}
    \* test_matmul_vec_identity
    \cup {<<identity(3, 128), <<with_val(128, 1), with_val(128, 2), with_val(128, 3)>>>>}
    \cup {<<identity(n, 64), GenVec(n, s, 128)>> : n \in 1..MaxVecDim, s \in {0, 1, 2}}
    \cup {<<GenMat(m, n, sa, 64), GenVec(n, sv, 128)>> :
            m \in 1..MaxVecDim, n \in 1..MaxVecDim, sa \in {0, 1, 2}, sv \in {0, 1, 2}}

NotComputed == [kind |-> "NotComputed"]

(***************************************************************************)
(* matmul_vec scenario: self.matmul_vec(&v), one closure per entry.        *)
(***************************************************************************)
MatvecInit ==
    /\ pc = "matvec"
    /\ \E pair \in MatvecInputs : matA = pair[1] /\ operand = pair[2]
    /\ workers = [i \in 0..(matA.rows - 1) |-> NotComputed]
    /\ output = <<>>
    /\ KernelOnly

\* the closure of entry i runs, on whichever thread
MatvecEntry ==
    /\ pc = "matvec"
    /\ \E i \in DOMAIN workers :
          /\ workers[i] = NotComputed
          /\ workers' = [workers EXCEPT ![i] = RowDot(matA, operand, i)]
    /\ UNCHANGED <<pc, matA, operand, output>>
    /\ UNCHANGED notKernel

\* collect(): the closures' values in index order
MatvecCollect ==
    /\ pc = "matvec"
    /\ \A i \in DOMAIN workers : workers[i] # NotComputed
    /\ output' = [x \in 1..matA.rows |-> workers[x - 1]]
    /\ pc' = "matvec_done"
    /\ UNCHANGED <<matA, operand, workers>>
    /\ UNCHANGED notKernel

MatvecNext == MatvecEntry \/ MatvecCollect

SpecMatvec == MatvecInit /\ [][MatvecNext]_vars

\* sum over j in 0..n of A[i, j] * v[j]
VectorEntry(A, v, i) ==
    SumSeq([x \in 1..A.cols |-> A.data[(x - 1) * A.rows + i + 1].val * v[x].val], 1, A.cols)

\* C9: matmul_vec(A, v) has A.rows entries, entry i the sum over j of
\* A[i, j] * v[j] whatever the other entries are and whenever they are
\* computed; so I * v = v and the known product is [2, 7].
C9_MatmulVec ==
    /\ pc \in {"matvec", "matvec_done"} =>
          \A i \in DOMAIN workers : workers[i] # NotComputed =>
              /\ workers[i].val = VectorEntry(matA, operand, i)
              /\ workers[i].prec = matA.data[1].prec
    /\ pc = "matvec_done" =>
          /\ Len(output) = matA.rows
          /\ \A i \in 0..(matA.rows - 1) : output[i + 1].val = VectorEntry(matA, operand, i)
          /\ matA = identity(matA.rows, matA.data[1].prec) =>
                \A x \in 1..Len(operand) : output[x].val = operand[x].val
          /\ (matA = KnownM /\ operand = KnownV) => output = KnownMV

\* the known product [[2, 0], [1, 3]] * [1, 2] = [2, 7]
C9_Witness ==
    /\ pc = "matvec_done"
    /\ matA = KnownM
    /\ operand = KnownV
    /\ output[2].val = 7

(***************************************************************************)
(* rugmat.rs: norm_inf                                                     *)
(***************************************************************************)
\* Columns of the matrices whose norm is taken.
MaxNormCols == 3

\* one call of the map_init closure for column j on the scratch
\* local_row_sums: tmp = |self[(i, j)]|; local_row_sums[i] += &tmp
AddAbsColumn(A, j, local_row_sums) ==
    [i \in 1..A.rows |->
        with_val(local_row_sums[i].prec,
                 local_row_sums[i].val + Abs(index(A, i - 1, j).val))]

\* the closure of reduce: acc[i] += &other[i]
AddVectors(acc, other) ==
    [i \in 1..Len(acc) |-> with_val(acc[i].prec, acc[i].val + other[i].val)]

\* reduce over the collected items, from the identity vector
RECURSIVE ReduceItems(_, _, _)
ReduceItems(items, j, acc) ==
    IF j > Len(items) THEN acc ELSE ReduceItems(items, j + 1, AddVectors(acc, items[j]))

\* row_sums.into_iter().reduce(|a, b| if a > b { a } else { b }).unwrap()
RECURSIVE MaxOf(_, _, _)
MaxOf(s, i, best) ==
    IF i > Len(s) THEN best
    ELSE MaxOf(s, i + 1, IF best.val > s[i].val THEN best ELSE s[i])

\* the ways 0..cols is cut into consecutive groups, each group one rayon
\* job with its own init() value: the sequences of group lengths
RECURSIVE Groupings(_)
Groupings(cols) ==
    IF cols = 0 THEN {<<>>}
    ELSE UNION {{<<first>> \o rest : rest \in Groupings(cols - first)} : first \in 1..cols}

\* first column of group g
GroupStart(lens, g) == SumSeq(lens, 1, g - 1)

NormInputs ==
    {Simple1234}
    \cup {GenMat(r, c, s, 64) : r \in 1..2, c \in 1..MaxNormCols, s \in {0, 1, 2}}

(***************************************************************************)
(* norm_inf scenario: self.norm_inf(), the columns grouped into jobs.      *)
(***************************************************************************)
NormInit ==
    /\ pc = "norm"
    /\ matA \in NormInputs
    /\ operand \in Groupings(matA.cols)
    \* init(): vec![Float::with_val(precision, 0); rows], once per job
    /\ workers = [g \in 1..Len(operand) |->
                    [next |-> GroupStart(operand, g),
                     last |-> GroupStart(operand, g) + operand[g],
                     local_row_sums |-> [i \in 1..matA.rows |-> with_val(matA.data[1].prec, 0)]]]
    /\ output = [j \in 1..matA.cols |-> NotComputed]
    /\ KernelOnly

\* a job maps its next column: the closure updates the job's scratch and
\* yields local_row_sums.clone()
NormMapItem ==
    /\ pc = "norm"
    /\ \E g \in DOMAIN workers :
        LET w == workers[g]
            sums == AddAbsColumn(matA, w.next, w.local_row_sums)
        IN /\ w.next < w.last
           /\ workers' = [workers EXCEPT ![g] = [w EXCEPT !.next = w.next + 1,
                                                          !.local_row_sums = sums]]
           /\ output' = [output EXCEPT ![w.next + 1] = sums]
    /\ UNCHANGED <<pc, matA, operand>>
    /\ UNCHANGED notKernel

\* reduce over the yielded vectors, then the maximum of the row sums
NormReduce ==
    /\ pc = "norm"
    /\ \A g \in DOMAIN workers : workers[g].next = workers[g].last
    /\ LET identityVec == [i \in 1..matA.rows |-> with_val(matA.data[1].prec, 0)]
           row_sums == ReduceItems(output, 1, identityVec)
       IN output' = MaxOf(row_sums, 2, row_sums[1])
    /\ pc' = "norm_done"
    /\ UNCHANGED <<matA, operand, workers>>
    /\ UNCHANGED notKernel

NormNext == NormMapItem \/ NormReduce

SpecNormInf == NormInit /\ [][NormNext]_vars

\* max over rows i of the sum over columns j of |M[i, j]|
RowAbsSum(A, i) ==
    SumSeq([x \in 1..A.cols |-> Abs(A.data[(x - 1) * A.rows + i + 1].val)], 1, A.cols)

MaxRowAbsSum(A) ==
    CHOOSE best \in {RowAbsSum(A, i) : i \in 0..(A.rows - 1)} :
        \A i \in 0..(A.rows - 1) : RowAbsSum(A, i) <= best

\* C10: norm_inf returns the largest row sum of absolute values however
\* the columns are grouped into jobs (7 for [[1, 2], [3, 4]]).
C10_NormInf ==
    pc = "norm_done" => output.val = MaxRowAbsSum(matA)

(***************************************************************************)
(* rugmat.rs: matmul_transpose_vec                                         *)
(***************************************************************************)
\* `for i in from..self.rows { sum += &self[(i, j)] * &v[i] }`
RECURSIVE ColLoop(_, _, _, _, _)
ColLoop(A, v, j, i, sum) ==
    IF i >= A.rows THEN sum
    ELSE ColLoop(A, v, j, i + 1, MulAdd(sum, index(A, i, j), v[i + 1]))

\* the closure of map: let mut sum = Float::with_val(precision, 0); the loop
\* over i in 0..self.rows; sum
ColDot(A, v, j) == ColLoop(A, v, j, 0, with_val(A.data[1].prec, 0))

MatTvecInputs ==
    {<<KnownM, KnownV>>}
    \cup {<<GenMat(m, n, sa, 64), GenVec(m, sv, 128)>> :
            m \in 1..MaxVecDim, n \in 1..MaxVecDim, sa \in {0, 1, 2}, sv \in {0, 1, 2}}

(***************************************************************************)
(* matmul_transpose_vec scenario: self.matmul_transpose_vec(&v), one       *)
(* closure per entry.                                                      *)
(***************************************************************************)
MatTvecInit ==
    /\ pc = "mattvec"
    /\ \E pair \in MatTvecInputs : matA = pair[1] /\ operand = pair[2]
    /\ workers = [j \in 0..(matA.cols - 1) |-> NotComputed]
    /\ output = <<>>
    /\ KernelOnly

\* the closure of entry j runs, on whichever thread
MatTvecEntry ==
    /\ pc = "mattvec"
    /\ \E j \in DOMAIN workers :
          /\ workers[j] = NotComputed
          /\ workers' = [workers EXCEPT ![j] = ColDot(matA, operand, j)]
    /\ UNCHANGED <<pc, matA, operand, output>>
    /\ UNCHANGED notKernel

\* collect(): the closures' values in index order
MatTvecCollect ==
    /\ pc = "mattvec"
    /\ \A j \in DOMAIN workers : workers[j] # NotComputed
    /\ output' = [x \in 1..matA.cols |-> workers[x - 1]]
    /\ pc' = "mattvec_done"
    /\ UNCHANGED <<matA, operand, workers>>
    /\ UNCHANGED notKernel

MatTvecNext == MatTvecEntry \/ MatTvecCollect

(***************************************************************************)
(* The three parallel sections, their closures run in any order.           *)
(***************************************************************************)
ParallelInit == MatmulInit \/ MatvecInit \/ MatTvecInit

ParallelNext == MatmulNext \/ MatvecNext \/ MatTvecNext

SpecParallel == ParallelInit /\ [][ParallelNext]_vars

\* sum over i in 0..m of A[i, j] * v[i]
TransposeEntry(A, v, j) ==
    SumSeq([x \in 1..A.rows |-> A.data[j * A.rows + x].val * v[x].val], 1, A.rows)

\* the workers whose private state a step changes
Stepped == {j \in DOMAIN workers : workers'[j] # workers[j]}

\* the slots of result_data a step changes
Written == {x \in 1..Len(output) : output'[x] # output[x]}

\* a step of a matmul closure: one closure moves; what it stores goes to its
\* own chunk, once, and nothing of the other closures changes
MatmulStepDisjoint ==
    (pc = "matmul" /\ pc' = "matmul") =>
        /\ Cardinality(Stepped) <= 1
        /\ \A j \in DOMAIN workers : workers[j].stored => workers'[j] = workers[j]
        /\ \A x \in Written : \E j \in Stepped :
              /\ (x - 1) \div matA.rows = j
              /\ ~workers[j].stored /\ workers'[j].stored
        /\ Written = {} => output' = output

\* a step of a vector product: one entry is produced, once, by its closure
VecStepDisjoint ==
    (pc \in {"matvec", "mattvec"} /\ pc' = pc) =>
        /\ Cardinality(Stepped) <= 1
        /\ \A j \in DOMAIN workers : workers[j] # NotComputed => workers'[j] = workers[j]
        /\ output' = output

\* the result is a function of the operands alone
ParallelResult ==
    /\ pc = "matmul_done" =>
          /\ \A j \in DOMAIN workers : workers[j].stored
          /\ \A i \in 0..(matA.rows - 1) : \A j \in 0..(operand.cols - 1) :
                output.data[j * matA.rows + i + 1] =
                    with_val(matA.data[1].prec, ProductEntry(matA, operand, i, j))
    /\ pc = "matvec_done" =>
          output = [x \in 1..matA.rows |->
                       with_val(matA.data[1].prec, VectorEntry(matA, operand, x - 1))]
    /\ pc = "mattvec_done" =>
          output = [x \in 1..matA.cols |->
                       with_val(matA.data[1].prec, TransposeEntry(matA, operand, x - 1))]

\* C11: in matmul, matmul_vec and matmul_transpose_vec every output slot is
\* written by exactly one closure, a closure changes nothing another closure
\* owns, and the returned result is the same whatever order the closures run in.
C11_DisjointWrites ==
    /\ [][MatmulStepDisjoint /\ VecStepDisjoint]_vars
    /\ []ParallelResult

\* a transposed product of three entries, all produced, the last not first
C11_Witness ==
    /\ pc = "mattvec_done"
    /\ matA.cols = 3
    /\ matA.rows = 2
    /\ output[3].val # 0

(***************************************************************************)
(* rugmat.rs: the three products as whole calls, from the assert at their  *)
(* entry to the value returned.  By C11 the result does not depend on the  *)
(* order of the closures, so the closures are run in index order here.     *)
(***************************************************************************)
\* Rows, columns and vector lengths of the operands of the calls.
MaxCallDim == 2

\* assert_eq!(left, right) failing: the thread panics, nothing is returned
AssertFailed(l, r) ==
    [kind |-> "Panic", msg |-> "assertion left == right failed", left |-> l, right |-> r]

\* `for l_block in (0..k).step_by(block_size)` of the closure of column j
RECURSIVE BlockLoop(_, _, _, _, _)
BlockLoop(A, B, j, acc, l_block) ==
    IF ~MoreBlocks(l_block, A.cols) THEN acc
    ELSE BlockLoop(A, B, j,
                   AccumulateBlock(A, B, j, acc, l_block, Min(l_block + block_size, A.cols)),
                   l_block + block_size)

\* RugMat::matmul
matmul(A, B) ==
    IF A.cols # B.rows THEN AssertFailed(A.cols, B.rows)
    ELSE LET precision == A.data[1].prec
             m == A.rows
             n == B.cols
             column(j) == BlockLoop(A, B, j, [i \in 1..m |-> with_val(precision, 0)], 0)
         IN [data |-> [x \in 1..(m * n) |-> column((x - 1) \div m)[((x - 1) % m) + 1]],
             rows |-> m, cols |-> n]

\* RugMat::matmul_vec
matmul_vec(A, v) ==
    IF A.cols # Len(v) THEN AssertFailed(A.cols, Len(v))
    ELSE [x \in 1..A.rows |-> RowDot(A, v, x - 1)]

\* RugMat::matmul_transpose_vec
matmul_transpose_vec(A, v) ==
    IF A.rows # Len(v) THEN AssertFailed(A.rows, Len(v))
    ELSE [x \in 1..A.cols |-> ColDot(A, v, x - 1)]

CallShapes == {GenMat(r, c, s, 64) : r \in 1..MaxCallDim, c \in 1..MaxCallDim, s \in {0, 1, 2}}

CallVectors == {GenVec(n, s, 64) : n \in 1..(MaxCallDim + 1), s \in {0, 1}}

(***************************************************************************)
(* Call scenario: one of the three products is called on operands of any   *)
(* shapes.                                                                 *)
(***************************************************************************)
CallInit ==
    /\ \/ pc = "call_matmul" /\ operand \in CallShapes
       \/ pc \in {"call_matmul_vec", "call_matmul_transpose_vec"} /\ operand \in CallVectors
    /\ matA \in CallShapes
    /\ workers = <<>>
    /\ output = NoResult
    /\ KernelOnly

CallMatmul ==
    /\ pc = "call_matmul"
    /\ output' = matmul(matA, operand)
    /\ pc' = "matmul_called"
    /\ UNCHANGED <<matA, operand, workers>>
    /\ UNCHANGED notKernel

CallMatmulVec ==
    /\ pc = "call_matmul_vec"
    /\ output' = matmul_vec(matA, operand)
    /\ pc' = "matmul_vec_called"
    /\ UNCHANGED <<matA, operand, workers>>
    /\ UNCHANGED notKernel

CallMatmulTransposeVec ==
    /\ pc = "call_matmul_transpose_vec"
    /\ output' = matmul_transpose_vec(matA, operand)
    /\ pc' = "matmul_transpose_vec_called"
    /\ UNCHANGED <<matA, operand, workers>>
    /\ UNCHANGED notKernel

CallNext == CallMatmul \/ CallMatmulVec \/ CallMatmulTransposeVec

SpecCall == CallInit /\ [][CallNext]_vars

\* the call was made on operands whose dimensions do not fit
Mismatched ==
    \/ pc = "matmul_called" /\ matA.cols # operand.rows
    \/ pc = "matmul_vec_called" /\ Len(operand) # matA.cols
    \/ pc = "matmul_transpose_vec_called" /\ Len(operand) # matA.rows

\* C19: a product called on operands whose dimensions do not fit returns an
\* error value to its caller; it does not panic.
C19_MismatchIsRecoverable ==
    Mismatched => output.kind = "Err"

(***************************************************************************)
(* Arithmetic of the solvers and estimators (rug::Float over MPFR).        *)
(*                                                                         *)
(* In the solver scenarios a Float is [kind, man, exp, prec]: kind "num"   *)
(* is the finite value man * 2^exp (man odd, or man = 0 and exp = 0),      *)
(* "inf" an infinity of sign man, "nan" a NaN.  Every operation rounds its *)
(* exact result once, to nearest, ties to even, as MPFR does; it rounds to *)
(* the precision of its destination or to WorkBits, whichever is smaller.  *)
(* The sign of a zero is not kept: x / 0 has the sign of x.                *)
(***************************************************************************)
\* Significant bits the finite values are carried with.
WorkBits == 10

Eff(prec) == Min(prec, WorkBits)

Sgn(x) == IF x < 0 THEN -1 ELSE IF x > 0 THEN 1 ELSE 0

NaN(prec) == [kind |-> "nan", man |-> 0, exp |-> 0, prec |-> prec]

Inf(sign, prec) == [kind |-> "inf", man |-> sign, exp |-> 0, prec |-> prec]

\* the odd mantissa and exponent of mag * 2^exp
RECURSIVE StripZeros(_, _)
StripZeros(mag, exp) ==
    IF mag = 0 THEN <<0, 0>>
    ELSE IF mag % 2 = 0 THEN StripZeros(mag \div 2, exp + 1)
    ELSE <<mag, exp>>

\* mag * 2^exp rounded to `bits` significant bits, to nearest, ties to even
RoundMag(mag, exp, bits) ==
    LET len == BitLen(mag)
    IN IF len <= bits THEN <<mag, exp>>
       ELSE LET unit == 2 ^ (len - bits)
                q == mag \div unit
                r == mag % unit
                up == 2 * r > unit \/ (2 * r = unit /\ q % 2 = 1)
            IN <<IF up THEN q + 1 ELSE q, exp + (len - bits)>>

\* the Float of precision prec nearest to man * 2^exp
Rounded(man, exp, prec) ==
    LET r == RoundMag(Abs(man), exp, Eff(prec))
        z == StripZeros(r[1], r[2])
    IN [kind |-> "num", man |-> Sgn(man) * z[1], exp |-> z[2], prec |-> prec]

\* a truncated magnitude with the lost bits recorded in its last bit
Jam(q, lost) == IF lost /\ q % 2 = 0 THEN q + 1 ELSE q

\* man * 2^exp in units of 2^to, rounded down
Shifted(man, exp, to) ==
    IF exp >= to THEN man * (2 ^ (exp - to))
    ELSE IF to - exp >= BitLen(Abs(man)) THEN (IF man < 0 THEN -1 ELSE 0)
    ELSE man \div (2 ^ (to - exp))

\* whether Shifted dropped non-zero bits
Lost(man, exp, to) ==
    /\ exp < to
    /\ man # 0
    /\ (to - exp >= BitLen(Abs(man)) \/ man % (2 ^ (to - exp)) # 0)

\* a sum rounded down, with the lost bits recorded in the last bit of its
\* magnitude
JamSum(sum, lost) ==
    IF ~lost THEN sum
    ELSE IF sum >= 0 THEN Jam(sum, TRUE)
    ELSE IF sum % 2 = 0 THEN sum + 1
    ELSE sum

Top(x) == x.exp + BitLen(Abs(x.man))

Max(x, y) == IF x > y THEN x ELSE y

IsNaN(a) == a.kind = "nan"
IsInf(a) == a.kind = "inf"
IsZero(a) == a.kind = "num" /\ a.man = 0
IsFinite(a) == a.kind = "num"

\* the exact sum of two finite non-zero values, precise enough to be rounded
\* to `bits` bits: the bits of the smaller one that lie more than three
\* places under the result's last are recorded in the last bit kept
SumExact(x, y, bits) ==
    LET hi == Max(Top(x), Top(y))
        lo == Min(x.exp, y.exp)
        close == Abs(Top(x) - Top(y)) <= 1
        larger == IF Top(x) >= Top(y) THEN x ELSE y
        e == IF close THEN lo ELSE Max(lo, Min(larger.exp, hi - bits - 4))
    IN <<JamSum(Shifted(x.man, x.exp, e) + Shifted(y.man, y.exp, e),
                Lost(x.man, x.exp, e) \/ Lost(y.man, y.exp, e)), e>>

\* x + y rounded to prec; x and y are values of any length
AddX(x, y, prec) ==
    IF IsNaN(x) \/ IsNaN(y) THEN NaN(prec)
    ELSE IF IsInf(x) /\ IsInf(y) THEN (IF x.man = y.man THEN Inf(x.man, prec) ELSE NaN(prec))
    ELSE IF IsInf(x) THEN Inf(x.man, prec)
    ELSE IF IsInf(y) THEN Inf(y.man, prec)
    ELSE IF x.man = 0 THEN Rounded(y.man, y.exp, prec)
    ELSE IF y.man = 0 THEN Rounded(x.man, x.exp, prec)
    ELSE LET sum == SumExact(x, y, Eff(prec))
         IN Rounded(sum[1], sum[2], prec)

\* the exact product
MulX(x, y) ==
    IF IsNaN(x) \/ IsNaN(y) THEN NaN(x.prec)
    ELSE IF IsInf(x) \/ IsInf(y) THEN
        (IF IsZero(x) \/ IsZero(y) THEN NaN(x.prec) ELSE Inf(Sgn(x.man) * Sgn(y.man), x.prec))
    ELSE [kind |-> "num", man |-> x.man * y.man, exp |-> x.exp + y.exp, prec |-> x.prec]

NegX(x) == [x EXCEPT !.man = -x.man]

\* x rounded to prec
RoundX(x, prec) ==
    IF IsFinite(x) THEN Rounded(x.man, x.exp, prec) ELSE [x EXCEPT !.prec = prec]

\* Float::with_val(precision, n) for an integer n
from_int(precision, n) == Rounded(n, 0, precision)

\* Float::with_val(precision, x) for an f64 x given as [top24, exp, more]:
\* its leading 24 bits top24 * 2^exp and whether lower bits follow
from_f64(precision, x) == Rounded(Jam(x.top24, x.more), x.exp, precision)

\* the f64 literals of the source and of its tests
F64_1e_3 == [top24 |-> 8589934, exp |-> -33, more |-> TRUE]
F64_1e_10 == [top24 |-> 14411518, exp |-> -57, more |-> TRUE]
F64_1e_20 == [top24 |-> 12379400, exp |-> -90, more |-> TRUE]
F64_1e_30 == [top24 |-> 10633823, exp |-> -123, more |-> TRUE]
F64_half == [top24 |-> 8388608, exp |-> -24, more |-> FALSE]

\* a + b, a - b, a * b at the precision of the destination
Add(a, b, prec) == AddX(a, b, prec)
Sub(a, b, prec) == AddX(a, NegX(b), prec)
Mul(a, b, prec) == RoundX(MulX(a, b), prec)

\* c + a * b and c - a * b, rounded once (rug: Float op MulIncomplete)
AddMul(c, a, b, prec) == AddX(c, MulX(a, b), prec)
SubMul(c, a, b, prec) == AddX(c, NegX(MulX(a, b)), prec)

\* a / b
Div(a, b, prec) ==
    IF IsNaN(a) \/ IsNaN(b) THEN NaN(prec)
    ELSE IF IsInf(a) THEN (IF IsInf(b) THEN NaN(prec) ELSE Inf(a.man * (IF b.man < 0 THEN -1 ELSE 1), prec))
    ELSE IF IsInf(b) THEN Rounded(0, 0, prec)
    ELSE IF b.man = 0 THEN (IF a.man = 0 THEN NaN(prec) ELSE Inf(Sgn(a.man), prec))
    ELSE IF a.man = 0 THEN Rounded(0, 0, prec)
    ELSE LET k == Max(0, Eff(prec) + 3 + BitLen(Abs(b.man)) - BitLen(Abs(a.man)))
             num == Abs(a.man) * (2 ^ k)
             q == num \div Abs(b.man)
             lost == num % Abs(b.man) # 0
         IN Rounded(Sgn(a.man) * Sgn(b.man) * Jam(q, lost), a.exp - b.exp - k, prec)

\* the largest r in lo..hi with r * r <= n
RECURSIVE SqrtSearch(_, _, _)
SqrtSearch(n, lo, hi) ==
    IF lo >= hi THEN lo
    ELSE LET mid == (lo + hi + 1) \div 2
         IN IF mid * mid <= n THEN SqrtSearch(n, mid, hi) ELSE SqrtSearch(n, lo, mid - 1)

\* a.sqrt()
Sqrt(a, prec) ==
    IF IsNaN(a) THEN NaN(prec)
    ELSE IF a.man < 0 THEN NaN(prec)
    ELSE IF IsInf(a) THEN Inf(1, prec)
    ELSE IF a.man = 0 THEN Rounded(0, 0, prec)
    ELSE LET want == Max(0, 2 * Eff(prec) + 3 - BitLen(a.man))
             k == IF (a.exp - want) % 2 = 0 THEN want ELSE want + 1
             n == a.man * (2 ^ k)
             r == SqrtSearch(n, 0, 2 ^ ((BitLen(n) + 1) \div 2))
         IN Rounded(Jam(r, r * r # n), (a.exp - k) \div 2, prec)

AbsF(a) == [a EXCEPT !.man = Abs(a.man)]

\* a < b; false when either is a NaN
Less(a, b) ==
    /\ ~IsNaN(a)
    /\ ~IsNaN(b)
    /\ LET d == AddX(a, NegX(b), WorkBits) IN d.man < 0

(***************************************************************************)
(* rugmat.rs: the vector helpers of the solvers.  A vector is a sequence   *)
(* of Floats; a matrix is the RugMat [data, rows, cols] of Floats.         *)
(***************************************************************************)
\* `for k in .. { sum += &left[k] * &right[k] }`, each step rounded once
RECURSIVE SumProducts(_, _, _, _, _)
SumProducts(left, right, k, n, sum) ==
    IF k > n THEN sum
    ELSE SumProducts(left, right, k + 1, n, AddMul(sum, left[k], right[k], sum.prec))

\* RugMat::matmul_vec on Floats
matmul_vecF(A, v) ==
    IF A.cols # Len(v) THEN AssertFailed(A.cols, Len(v))
    ELSE LET precision == A.data[1].prec
         IN [x \in 1..A.rows |->
                SumProducts([j \in 1..A.cols |-> A.data[(j - 1) * A.rows + x]], v,
                            1, A.cols, from_int(precision, 0))]

\* RugMat::matmul_transpose_vec on Floats
matmul_transpose_vecF(A, v) ==
    IF A.rows # Len(v) THEN AssertFailed(A.rows, Len(v))
    ELSE LET precision == A.data[1].prec
         IN [x \in 1..A.cols |->
                SumProducts([i \in 1..A.rows |-> A.data[(x - 1) * A.rows + i]], v,
                            1, A.rows, from_int(precision, 0))]

\* RugMat::norm2_vec
norm2_vec(v) ==
    LET precision == v[1].prec
        acc == SumProducts(v, v, 1, Len(v), from_int(precision * 2, 0))
    IN Sqrt(acc, acc.prec)

\* .reduce(|a, b| a + b) from the k-th item on
RECURSIVE ReduceAdd(_, _, _)
ReduceAdd(items, k, acc) ==
    IF k > Len(items) THEN acc
    ELSE ReduceAdd(items, k + 1, Add(acc, items[k], acc.prec))

\* a.iter().zip(b).map(|(a, b)| (a * b).complete(a.prec())).reduce(|a, b| a + b).unwrap()
ZipDot(a, b) ==
    LET n == Min(Len(a), Len(b))
        items == [k \in 1..n |-> Mul(a[k], b[k], a[k].prec)]
    IN IF n = 0 THEN Panicked ELSE ReduceAdd(items, 2, items[1])

\* RugMat::identity on Floats
identityF(n, precision) ==
    from_2d_vec([i \in 1..n |-> [j \in 1..n |-> from_int(precision, IF i = j THEN 1 ELSE 0)]])

\* RugMat::diagonal_from_f64 on Floats; the values are given as halves
diagonalF(halves, precision) ==
    from_2d_vec([i \in 1..Len(halves) |-> [j \in 1..Len(halves) |->
                    IF i = j THEN Rounded(halves[i], -1, precision) ELSE from_int(precision, 0)]])

\* RugMat::from_vecvec on rows of integers
from_rowsF(rowsOfInts, precision) ==
    from_2d_vec([i \in 1..Len(rowsOfInts) |-> [j \in 1..Len(rowsOfInts[i]) |->
                    from_int(precision, rowsOfInts[i][j])]])

(***************************************************************************)
(* rugmat.rs: spectral_norm_estimate                                       *)
(***************************************************************************)
\* Iteration budgets max_iters of the generated calls.
MaxIters == 3

\* Sides of the generated matrices of the estimators and solvers.
MaxEstDim == 2

BudgetLeft_onemore(iter, max_iters) == iter <= max_iters

\* `for _ in 0..max_iters`: whether the range yields another item
BudgetLeft(iter, max_iters) == iter < max_iters

Ok(v) == [kind |-> "Ok", val |-> v]

\* one turn of the loop of spectral_norm_estimate
SpectralTurn(A, x, lambda, tol) ==
    LET Checked(x1, lambda_new) ==
            IF Less(AbsF(Sub(lambda_new, lambda, lambda_new.prec)),
                    from_f64(A.data[1].prec, tol))
            THEN [kind |-> "Return", val |-> lambda_new]
            ELSE [kind |-> "Continue", x |-> x1, val |-> lambda_new,
                  lambda |-> RoundX(lambda_new, lambda.prec)]
        WithX(y, x1) == Checked(x1, ZipDot(y, matmul_vecF(A, x1)))
        WithNorm(y, norm_y) == WithX(y, [i \in 1..A.cols |-> Div(y[i], norm_y, y[i].prec)])
        WithY(y) == WithNorm(y, norm2_vec(y))
    IN \* x[i] = y[i].clone() / &norm_y with i in 0..self.cols and y.len() = self.rows
       IF A.cols > A.rows THEN Panicked
       ELSE WithY(matmul_vecF(A, x))

RECURSIVE SpectralLoop(_, _, _, _, _, _)
SpectralLoop(A, x, lambda, iter, max_iters, tol) ==
    LET After(turn) ==
            IF turn.kind = "Panic" THEN Panicked
            ELSE IF turn.kind = "Return" THEN Ok(turn.val)
            ELSE SpectralLoop(A, turn.x, turn.lambda, iter + 1, max_iters, tol)
    IN IF ~BudgetLeft(iter, max_iters) THEN Ok(lambda)
       ELSE After(SpectralTurn(A, x, lambda, tol))

\* the locals of spectral_norm_estimate before its loop
SpectralStart(A) ==
    [x |-> [i \in 1..A.cols |-> from_int(A.data[1].prec, 1)],
     lambda |-> from_int(A.data[1].prec, 0),
     lambda_new |-> NoResult,
     \* whether the convergence check has passed
     passed |-> FALSE,
     iter |-> 0]

\* RugMat::spectral_norm_estimate
spectral_norm_estimate(A, max_iters, tol) ==
    SpectralLoop(A, SpectralStart(A).x, SpectralStart(A).lambda, 0, max_iters, tol)

\* test_power_iteration_identity, test_power_iteration_diagonal
TestIdentity5 == identityF(5, 128)
TestDiagonal5 == diagonalF(<<2, 4, 1, 8, 6>>, 128)

DiagonalMatrices ==
    {identityF(n, 128) : n \in 1..MaxEstDim}
    \cup {diagonalF(h, 128) : h \in {<<8>>, <<4>>, <<2, 4>>, <<6, 8>>, <<4, 2>>, <<1, 1>>}}
    \cup {TestIdentity5, TestDiagonal5}

EstimatorMatrices ==
    {from_rowsF(r, 64) : r \in {<<<<0>>>>, <<<<1, 1>>>>, <<<<1>>, <<1>>>>,
                                <<<<0, 1>>, <<-1, 0>>>>, <<<<1, 0>>, <<0, 0>>>>,
                                <<<<2, 1>>, <<1, 3>>>>}}

Tolerances == {F64_1e_20, F64_1e_10, F64_half}

SpectralCalls ==
    {[self |-> A, max_iters |-> n, tol |-> t] :
        A \in (DiagonalMatrices \ {TestIdentity5, TestDiagonal5}) \cup EstimatorMatrices,
        n \in 0..MaxIters, t \in Tolerances}
    \cup {[self |-> TestIdentity5, max_iters |-> 100, tol |-> F64_1e_20],
          [self |-> TestDiagonal5, max_iters |-> 500, tol |-> F64_1e_20]}

(***************************************************************************)
(* Spectral scenario: self.spectral_norm_estimate(max_iters, tol), one     *)
(* step per turn of its loop.                                              *)
(***************************************************************************)
SpectralInit ==
    /\ pc = "spectral"
    /\ args \in SpectralCalls
    /\ frame = SpectralStart(args.self)
    /\ ret = NoResult
    /\ SolverOnly

\* one turn of the loop: it panics, returns lambda_new or goes on
SpectralIterate ==
    /\ pc = "spectral"
    /\ BudgetLeft(frame.iter, args.max_iters)
    /\ LET After(turn) ==
               IF turn.kind = "Panic"
               THEN /\ ret' = Panicked
                    /\ pc' = "spectral_done"
                    /\ frame' = [frame EXCEPT !.iter = frame.iter + 1]
               ELSE IF turn.kind = "Return"
               THEN /\ ret' = Ok(turn.val)
                    /\ pc' = "spectral_done"
                    /\ frame' = [frame EXCEPT !.iter = frame.iter + 1,
                                             !.lambda_new = turn.val, !.passed = TRUE]
               ELSE /\ frame' = [frame EXCEPT !.x = turn.x, !.lambda = turn.lambda,
                                             !.lambda_new = turn.val,
                                             !.iter = frame.iter + 1]
                    /\ UNCHANGED <<pc, ret>>
       IN After(SpectralTurn(args.self, frame.x, frame.lambda, args.tol))
    /\ UNCHANGED args
    /\ UNCHANGED notSolver

\* the loop has run max_iters turns: `lambda` is returned
SpectralExhausted ==
    /\ pc = "spectral"
    /\ ~BudgetLeft(frame.iter, args.max_iters)
    /\ ret' = Ok(frame.lambda)
    /\ pc' = "spectral_done"
    /\ UNCHANGED <<args, frame>>
    /\ UNCHANGED notSolver

SpectralNext == SpectralIterate \/ SpectralExhausted

SpecSpectral == SpectralInit /\ [][SpectralNext]_vars

\* the diagonal of a square matrix
Diagonal(A) == [i \in 1..A.rows |-> A.data[(i - 1) * A.rows + i]]

LargestDiagonal(A) ==
    CHOOSE d \in {Diagonal(A)[i] : i \in 1..A.rows} :
        \A i \in 1..A.rows : ~Less(d, Diagonal(A)[i])

\* within 2^-4 of each other
Near(a, b) == Less(AbsF(Sub(a, b, WorkBits)), Rounded(1, -4, WorkBits))

\* C12: for a diagonal matrix with positive entries the spectral estimate,
\* once its convergence check has passed at a tight tolerance, is the largest
\* diagonal entry: 1 for the identity, 4 for diag(1, 2, 0.5, 4, 3) within the
\* 500 iterations of the test.
C12_SpectralValue ==
    (/\ pc = "spectral_done"
     /\ args.self \in DiagonalMatrices
     /\ args.tol = F64_1e_20
     /\ frame.passed) =>
        Near(ret.val, LargestDiagonal(args.self))

\* what a step of the estimator does with its budget and its check
SpectralStepRule ==
    (pc = "spectral") =>
        IF frame.iter = args.max_iters
        THEN /\ pc' = "spectral_done"
             /\ ret' = Ok(frame.lambda)
             /\ args.max_iters = 0 => ret'.val = from_int(args.self.data[1].prec, 0)
        ELSE /\ frame'.iter = frame.iter + 1
             /\ ret'.kind # "Panic" =>
                   LET lambda_new == frame'.lambda_new
                       tol == from_f64(args.self.data[1].prec, args.tol)
                   IN IF Less(AbsF(Sub(lambda_new, frame.lambda, lambda_new.prec)), tol)
                      THEN pc' = "spectral_done" /\ ret' = Ok(lambda_new) /\ frame'.passed
                      ELSE /\ pc' = "spectral" /\ ret' = ret
                           /\ frame'.lambda = lambda_new /\ ~frame'.passed

\* the loop never runs more than max_iters turns, and the call returns a
\* value unless an index leaves its vector (more columns than rows)
SpectralBudget ==
    /\ pc \in {"spectral", "spectral_done"} => frame.iter <= args.max_iters
    /\ pc = "spectral" => ret = NoResult
    /\ pc = "spectral_done" =>
          /\ ret.kind \in {"Ok", "Panic"}
          /\ ret.kind = "Panic" => args.self.cols > args.self.rows

NormalApply(A, p) == matmul_transpose_vecF(A, matmul_vecF(A, p))

\* r.iter().map(|v| (v * v).complete(v.prec())).reduce(|a, b| a + b).unwrap()
SumSquares(r) == ZipDot(r, r)

DenomIsZero_never(denom) == FALSE

\* denom == 0
DenomIsZero(denom) == IsZero(denom)

\* the locals of conjugate_gradient before its loop; `total` counts the loop
\* turns of the whole call and `restarts` its hand-overs to cg_regularized
CgStart(A, b) ==
    LET precision == b[1].prec
        At_b == matmul_transpose_vecF(A, b)
        x == [j \in 1..A.cols |-> from_int(precision, 0)]
        At_Ax == NormalApply(A, x)
        r == [j \in 1..A.cols |-> Sub(At_b[j], At_Ax[j], At_b[j].prec)]
        rs_old == SumSquares(r)
    IN [fn |-> "conjugate_gradient", x |-> x, r |-> r, p |-> r, rs_old |-> rs_old,
        initial_norm |-> Sqrt(rs_old, rs_old.prec),
        epsilon |-> from_f64(precision, F64_1e_30),
        lambda |-> NoResult, denom |-> NoResult, rs_new |-> NoResult,
        broke |-> FALSE, iter |-> 0, total |-> 0, restarts |-> 0]

\* the locals of cg_regularized before its loop
RegStart(A, b, lambda) ==
    LET precision == b[1].prec
        At_b == matmul_transpose_vecF(A, b)
        x == [j \in 1..A.cols |-> from_int(precision, 0)]
        At_Ax == NormalApply(A, x)
        r0 == [j \in 1..A.cols |-> Sub(At_b[j], At_Ax[j], At_b[j].prec)]
        r == [j \in 1..A.cols |-> SubMul(r0[j], lambda, x[j], r0[j].prec)]
    IN [fn |-> "cg_regularized", x |-> x, r |-> r, p |-> r, rs_old |-> SumSquares(r),
        initial_norm |-> NoResult,
        epsilon |-> from_f64(precision, F64_1e_30),
        lambda |-> lambda, denom |-> NoResult, rs_new |-> NoResult,
        broke |-> FALSE, iter |-> 0, total |-> 0, restarts |-> 0]

\* one turn of either loop from the denominator on: alpha, x, r, rs_new, the
\* exit test against `threshold`, beta, p
CgUpdate(f, Ap, denom, threshold) ==
    LET alpha == Div(f.rs_old, denom, f.rs_old.prec)
        x == [i \in 1..Len(f.x) |-> AddMul(f.x[i], alpha, f.p[i], f.x[i].prec)]
        r == [i \in 1..Len(f.x) |-> SubMul(f.r[i], alpha, Ap[i], f.r[i].prec)]
        rs_new == SumSquares(r)
        beta == Div(rs_new, f.rs_old, rs_new.prec)
        p == [i \in 1..Len(f.p) |-> Add(r[i], Mul(beta, f.p[i], beta.prec), beta.prec)]
    IN IF Less(rs_new, threshold)
       THEN [f EXCEPT !.x = x, !.r = r, !.denom = denom, !.rs_new = rs_new,
                      !.broke = TRUE, !.iter = f.iter + 1, !.total = f.total + 1]
       ELSE [f EXCEPT !.x = x, !.r = r, !.p = p, !.rs_old = rs_new,
                      !.denom = denom, !.rs_new = rs_new,
                      !.iter = f.iter + 1, !.total = f.total + 1]

\* conjugate_gradient: the denominator of a turn
CgDenom(A, f) == ZipDot(f.p, NormalApply(A, f.p))

\* conjugate_gradient: a turn whose denominator is not zero
CgTurn(A, f) ==
    CgUpdate(f, NormalApply(A, f.p), CgDenom(A, f),
             Mul(f.epsilon, f.initial_norm, f.epsilon.prec))

\* cg_regularized: Ap of a turn
RegAp(A, f) ==
    LET AtAv == NormalApply(A, f.p)
    IN [i \in 1..Len(f.p) |-> AddMul(AtAv[i], f.lambda, f.p[i], AtAv[i].prec)]

\* cg_regularized: a turn
RegTurn(A, f) ==
    CgUpdate(f, RegAp(A, f), ZipDot(f.p, RegAp(A, f)), f.epsilon)

\* the systems: matrices of small integers and right-hand sides whose
\* entries are 0, 1, -1 or the tiny 2^-100
SolverMatrices ==
    {from_rowsF(r, 64) : r \in {<<<<1, 0>>, <<0, 0>>>>, <<<<1, 1>>, <<1, 1>>>>,
                                <<<<2, 1>>, <<1, 3>>>>, <<<<1, 0>>, <<0, 1>>>>,
                                <<<<0>>>>, <<<<3>>>>, <<<<1, 2>>>>, <<<<1>>, <<1>>>>}}

\* the matrices among them whose A^T A is singular
SingularNormal ==
    {from_rowsF(r, 64) : r \in {<<<<1, 0>>, <<0, 0>>>>, <<<<1, 1>>, <<1, 1>>>>,
                                <<<<0>>>>, <<<<1, 2>>>>}}

RhsEntries == {from_int(64, 0), from_int(64, 1), from_int(64, -1), Rounded(1, -100, 64)}

RhsVectors(n) == [1..n -> RhsEntries]

CgCalls ==
    {[self |-> A, b |-> b, max_iters |-> n] :
        A \in {M \in SolverMatrices : M.rows = 1}, b \in RhsVectors(1), n \in 0..MaxIters}
    \cup {[self |-> A, b |-> b, max_iters |-> n] :
        A \in {M \in SolverMatrices : M.rows = 2}, b \in RhsVectors(2), n \in 0..MaxIters}

(***************************************************************************)
(* CG scenario: self.conjugate_gradient(&b, max_iters), one step per turn  *)
(* of a loop.                                                              *)
(***************************************************************************)
CgInit ==
    /\ pc = "cg"
    /\ args \in CgCalls
    /\ frame = CgStart(args.self, args.b)
    /\ ret = NoResult
    /\ SolverOnly

\* a turn of conjugate_gradient whose denominator is zero:
\* return self.cg_regularized(b, max_iters, Float::with_val(precision, 1e-10))
CgRestart ==
    /\ pc = "cg"
    /\ frame.fn = "conjugate_gradient"
    /\ BudgetLeft(frame.iter, args.max_iters)
    /\ DenomIsZero(CgDenom(args.self, frame))
    /\ frame' = [RegStart(args.self, args.b, from_f64(args.b[1].prec, F64_1e_10))
                    EXCEPT !.total = frame.total, !.restarts = frame.restarts + 1]
    /\ UNCHANGED <<pc, args, ret>>
    /\ UNCHANGED notSolver

\* a turn of conjugate_gradient whose denominator is not zero
CgIterate ==
    /\ pc = "cg"
    /\ frame.fn = "conjugate_gradient"
    /\ BudgetLeft(frame.iter, args.max_iters)
    /\ ~DenomIsZero(CgDenom(args.self, frame))
    /\ frame' = CgTurn(args.self, frame)
    /\ IF frame'.broke
       THEN ret' = Ok(frame'.x) /\ pc' = "cg_done"
       ELSE UNCHANGED <<pc, ret>>
    /\ UNCHANGED args
    /\ UNCHANGED notSolver

\* a turn of cg_regularized
RegIterate ==
    /\ pc = "cg"
    /\ frame.fn = "cg_regularized"
    /\ BudgetLeft(frame.iter, args.max_iters)
    /\ frame' = RegTurn(args.self, frame)
    /\ IF frame'.broke
       THEN ret' = Ok(frame'.x) /\ pc' = "cg_done"
       ELSE UNCHANGED <<pc, ret>>
    /\ UNCHANGED args
    /\ UNCHANGED notSolver

\* the loop of either function has run max_iters turns: x is returned
CgReturn ==
    /\ pc = "cg"
    /\ ~BudgetLeft(frame.iter, args.max_iters)
    /\ ret' = Ok(frame.x)
    /\ pc' = "cg_done"
    /\ UNCHANGED <<args, frame>>
    /\ UNCHANGED notSolver

CgNext == CgRestart \/ CgIterate \/ RegIterate \/ CgReturn

SpecCG == CgInit /\ [][CgNext]_vars

\* a turn of conjugate_gradient with a zero denominator becomes the start of
\* cg_regularized on the same b and max_iters with lambda = 1e-10; any other
\* turn stays in conjugate_gradient
EscalationRule ==
    (pc = "cg" /\ frame.fn = "conjugate_gradient" /\ frame.iter < args.max_iters) =>
        IF IsZero(ZipDot(frame.p, NormalApply(args.self, frame.p)))
        THEN /\ frame'.fn = "cg_regularized"
             /\ frame'.lambda = from_f64(args.b[1].prec, F64_1e_10)
             /\ frame'.iter = 0
             /\ frame'.x = [j \in 1..args.self.cols |-> from_int(args.b[1].prec, 0)]
             /\ frame'.r = matmul_transpose_vecF(args.self, args.b)
             /\ frame'.restarts = frame.restarts + 1
             /\ args' = args
             /\ pc' = "cg"
        ELSE /\ frame'.fn = "conjugate_gradient"
             /\ frame'.restarts = frame.restarts

\* cg_regularized never hands back or over
NoWayBack ==
    (pc = "cg" /\ frame.fn = "cg_regularized") =>
        /\ frame'.fn = "cg_regularized"
        /\ frame'.restarts = frame.restarts
        /\ args' = args

EscalationBound ==
    pc \in {"cg", "cg_done"} =>
        /\ frame.restarts <= 1
        /\ frame.restarts = 1 <=> frame.fn = "cg_regularized"
        /\ frame.iter <= args.max_iters
        /\ frame.total <= 2 * args.max_iters

\* every step of a call is a loop turn, the hand-over or the return, so the
\* bound on turns and hand-overs bounds the length of the call
Progress ==
    pc = "cg" =>
        \/ pc' = "cg_done" /\ ret' = Ok(frame'.x)
        \/ pc' = "cg" /\ frame'.total + frame'.restarts = frame.total + frame.restarts + 1

\* C14: the first turn of conjugate_gradient whose denominator is exactly
\* zero hands the solve to cg_regularized with the same b, the same max_iters
\* and lambda = 1e-10; that happens at most once per call, so a call runs at
\* most 2 * max_iters turns and then returns.
C14_Escalation ==
    /\ [][EscalationRule /\ NoWayBack /\ Progress]_vars
    /\ []EscalationBound

\* a call that escalated and then used its whole budget in cg_regularized
C14_Witness ==
    /\ pc = "cg_done"
    /\ frame.restarts = 1
    /\ args.max_iters = 3
    /\ frame.total = 3
    /\ args.self = from_rowsF(<<<<1, 0>>, <<0, 0>>>>, 64)

\* C15: in the regularized run a denominator that is exactly zero ends the
\* loop and the iterate is returned; it has no NaN or infinite component.
C15_RegularizedZeroDenominator ==
    (pc \in {"cg", "cg_done"} /\ frame.fn = "cg_regularized" /\ IsZero(frame.denom)) =>
        /\ pc = "cg_done"
        /\ \A i \in 1..Len(ret.val) : IsFinite(ret.val[i])

\* C16: a call on a matrix whose A^T A is singular goes through
\* cg_regularized before it returns.
C16_SingularTakesRestart ==
    (pc = "cg_done" /\ args.self \in SingularNormal) => frame.fn = "cg_regularized"

\* a turn of conjugate_gradient leaves the loop exactly when the norm of the
\* new residual is under epsilon times the norm of the initial residual
EarlyExitRule ==
    (/\ pc = "cg"
     /\ frame.fn = "conjugate_gradient"
     /\ frame'.fn = "conjugate_gradient"
     /\ frame'.iter = frame.iter + 1) =>
        (frame'.broke <=>
            Less(Sqrt(frame'.rs_new, frame'.rs_new.prec),
                 Mul(from_f64(args.b[1].prec, F64_1e_30), frame.initial_norm, args.b[1].prec)))

\* C17: conjugate_gradient leaves its loop early exactly when the residual
\* norm ||r_k|| (not its square) is under 1e-30 * ||r_0||.
C17_EarlyExit == [][EarlyExitRule]_vars

(***************************************************************************)
(* rugmat.rs: lsqr                                                         *)
(***************************************************************************)
\* for ui in &mut u { *ui /= &norm; }
Normalized(u, norm) == [i \in 1..Len(u) |-> Div(u[i], norm, u[i].prec)]

\* for (ti, fi) in into.iter_mut().zip(&from) { *ti -= scale.clone() * fi; }
\* the product is rounded to the precision of scale, then the difference
LessScaled(into, scale, from) ==
    [i \in 1..Len(into) |->
        Sub(into[i], Mul(scale, from[i], scale.prec), into[i].prec)]

\* the locals of lsqr before its loop; `alpha` is the binding of line 497,
\* which the loop reads in line 509 and which the `let alpha` of the loop body
\* shadows without assigning it; `zero_norm` records that one of the norms
\* the code divided by was exactly zero; `normalizer` is the alpha that
\* v was last divided by and `beta` the last beta; `used_alpha` and
\* `used_beta` are the factors of the last u-update and v-update
LsqrStart(A, b) ==
    LET Locals(beta, alpha, v) ==
            [x |-> [j \in 1..A.cols |-> from_int(b[1].prec, 0)],
             u |-> Normalized(b, beta), v |-> v, w |-> v, alpha |-> alpha,
             phibar |-> beta, rhobar |-> alpha,
             zero_norm |-> IsZero(beta) \/ IsZero(alpha), iter |-> 0,
             normalizer |-> alpha, beta |-> beta,
             used_alpha |-> NoResult, used_beta |-> NoResult]
        WithAlpha(beta, v0, alpha) == Locals(beta, alpha, Normalized(v0, alpha))
        WithV(beta, v0) == WithAlpha(beta, v0, norm2_vec(v0))
        WithBeta(beta) == WithV(beta, matmul_transpose_vecF(A, Normalized(b, beta)))
    IN WithBeta(norm2_vec(b))

\* one turn of the loop of lsqr; each local of the body is the argument of a
\* local operator, bound in the order of the code: u_new, beta, u, v_new,
\* alpha, v, rho, then c and s; theta = s * alpha and phi = c * phibar stand
\* where they are used
LsqrTurn(A, f) ==
    LET Rotated(u, beta, v, alpha, c, s) ==
            [x |-> [j \in 1..Len(f.x) |->
                      AddMul(f.x[j], Mul(c, f.phibar, c.prec), f.w[j], f.x[j].prec)],
             u |-> u, v |-> v,
             w |-> [j \in 1..Len(f.w) |->
                      Sub(v[j], Mul(Mul(s, alpha, s.prec), f.w[j], s.prec), s.prec)],
             alpha |-> f.alpha,
             phibar |-> Mul(s, f.phibar, s.prec),
             rhobar |-> Mul(NegX(c), alpha, c.prec),
             zero_norm |-> f.zero_norm \/ IsZero(beta) \/ IsZero(alpha),
             iter |-> f.iter + 1,
             normalizer |-> alpha, beta |-> beta,
             used_alpha |-> f.alpha, used_beta |-> beta]
        WithRho(u, beta, v, alpha, rho) ==
            Rotated(u, beta, v, alpha, Div(f.rhobar, rho, f.rhobar.prec),
                    Div(beta, rho, beta.prec))
        WithAlpha(u, beta, v_new, alpha) ==
            WithRho(u, beta, Normalized(v_new, alpha), alpha,
                    Sqrt(Add(Mul(f.rhobar, f.rhobar, f.rhobar.prec),
                             Mul(beta, beta, beta.prec), f.rhobar.prec), f.rhobar.prec))
        WithVNew(u, beta, v_new) == WithAlpha(u, beta, v_new, norm2_vec(v_new))
        WithU(u, beta) ==
            WithVNew(u, beta, LessScaled(matmul_transpose_vecF(A, u), beta, f.v))
        WithBeta(u_new, beta) == WithU(Normalized(u_new, beta), beta)
        WithUNew(u_new) == WithBeta(u_new, norm2_vec(u_new))
    IN WithUNew(LessScaled(matmul_vecF(A, f.v), f.alpha, f.u))

LsqrCalls == CgCalls

(***************************************************************************)
(* LSQR scenario: self.lsqr(&b, max_iters), one step per turn of the loop. *)
(***************************************************************************)
LsqrInit ==
    /\ pc = "lsqr"
    /\ args \in LsqrCalls
    /\ frame = LsqrStart(args.self, args.b)
    /\ ret = NoResult
    /\ SolverOnly

LsqrIterate ==
    /\ pc = "lsqr"
    /\ BudgetLeft(frame.iter, args.max_iters)
    /\ frame' = LsqrTurn(args.self, frame)
    /\ UNCHANGED <<pc, args, ret>>
    /\ UNCHANGED notSolver

\* the loop has run max_iters turns: x is returned
LsqrReturn ==
    /\ pc = "lsqr"
    /\ ~BudgetLeft(frame.iter, args.max_iters)
    /\ ret' = Ok(frame.x)
    /\ pc' = "lsqr_done"
    /\ UNCHANGED <<args, frame>>
    /\ UNCHANGED notSolver

LsqrNext == LsqrIterate \/ LsqrReturn

SpecLsqr == LsqrInit /\ [][LsqrNext]_vars

\* C18: a call of lsqr that met a norm that is exactly zero reports an
\* error, and a vector that lsqr returns has no NaN or infinite component.
C18_LsqrZeroNorm ==
    pc = "lsqr_done" =>
        /\ frame.zero_norm => ret.kind = "Err"
        /\ ret.kind = "Ok" => \A j \in 1..Len(ret.val) : IsFinite(ret.val[j])

(***************************************************************************)
(* rugmat.rs: pseudo_inverse_solve (GradientDescent),                      *)
(* smallest_singular_value_estimate and cond_estimate                      *)
(***************************************************************************)
\* one turn of the gradient-descent loop: r = A x - b, x[j] -= &alpha * &At_r[j]
GradientStep(A, b, x, alpha) ==
    LET Ax == matmul_vecF(A, x)
        r == [i \in 1..A.rows |-> Sub(Ax[i], b[i], Ax[i].prec)]
        At_r == matmul_transpose_vecF(A, r)
    IN [j \in 1..A.cols |-> SubMul(x[j], alpha, At_r[j], x[j].prec)]

\* one turn of the loop of smallest_singular_value_estimate, given the y that
\* pseudo_inverse_solve returned; x has self.rows entries, of which the first
\* self.cols are assigned
SmallestTurn(A, y, lambda, tol) ==
    LET Checked(x1, lambda_new) ==
            IF Less(AbsF(Sub(lambda_new, lambda, lambda_new.prec)),
                    from_f64(A.data[1].prec, tol))
            THEN [kind |-> "Return", val |-> lambda_new]
            ELSE [kind |-> "Continue", x |-> x1, val |-> lambda_new,
                  lambda |-> RoundX(lambda_new, lambda.prec)]
        WithX(x1) == Checked(x1, ZipDot(x1, matmul_vecF(A, x1)))
        WithNorm(norm_y) == WithX([i \in 1..A.cols |-> Div(y[i], norm_y, y[i].prec)])
    IN \* cols > rows: x[i] is out of bounds; rows > cols: matmul_vec(&x)
       \* fails its assertion self.cols == v.len()
       IF A.cols # A.rows THEN Panicked
       ELSE WithNorm(norm2_vec(y))

\* the locals of smallest_singular_value_estimate before its loop, with the
\* x and the turn counter `solved` of the gradient-descent loop it calls
SmallestStart(A) ==
    [x |-> [i \in 1..A.rows |-> from_int(A.data[1].prec, 1)],
     lambda |-> from_int(A.data[1].prec, 0),
     iter |-> 0,
     y |-> [j \in 1..A.cols |-> from_int(A.data[1].prec, 0)],
     solved |-> 0]

is_zero_or_nan(sigma) == IsZero(sigma) \/ IsNaN(sigma)

\* sigma_min.is_zero()
is_zero(sigma) == IsZero(sigma)

CondCalls ==
    {[self |-> A, max_iters |-> n, tol |-> t] :
        A \in (DiagonalMatrices \ {TestIdentity5, TestDiagonal5}) \cup EstimatorMatrices,
        n \in 0..MaxIters, t \in Tolerances}

(***************************************************************************)
(* Condition scenario: self.cond_estimate(max_iters, tol). The call of     *)
(* spectral_norm_estimate is one step; smallest_singular_value_estimate    *)
(* takes one step per turn of the gradient-descent loop and one for the    *)
(* rest of each turn of its own loop. `given` holds the arguments each     *)
(* estimate was called with.                                               *)
(***************************************************************************)
CondInit ==
    /\ pc = "cond_max"
    /\ args \in CondCalls
    /\ frame = [sigma_max |-> NoResult, sigma_min |-> NoResult,
                given_max |-> NoResult, given_min |-> NoResult,
                callee |-> NoResult]
    /\ ret = NoResult
    /\ SolverOnly

\* let sigma_max = self.spectral_norm_estimate(max_iters, tol); and the entry
\* of self.smallest_singular_value_estimate(max_iters, tol)
CondSigmaMax ==
    /\ pc = "cond_max"
    /\ LET After(sigma_max) ==
               IF sigma_max.kind = "Panic"
               THEN /\ frame' = [frame EXCEPT !.sigma_max = sigma_max,
                                              !.given_max = <<args.max_iters, args.tol>>]
                    /\ ret' = Panicked
                    /\ pc' = "cond_done"
               ELSE /\ frame' = [frame EXCEPT !.sigma_max = sigma_max,
                                              !.given_max = <<args.max_iters, args.tol>>,
                                              !.given_min = <<args.max_iters, args.tol>>,
                                              !.callee = SmallestStart(args.self)]
                    /\ ret' = ret
                    /\ pc' = "cond_min"
       IN After(spectral_norm_estimate(args.self, args.max_iters, args.tol))
    /\ UNCHANGED args
    /\ UNCHANGED notSolver

\* pseudo_inverse_solve(&x, 20, GradientDescent { alpha: 1e-3 }): one turn
SmallestSolve ==
    /\ pc = "cond_min"
    /\ BudgetLeft(frame.callee.iter, frame.given_min[1])
    /\ BudgetLeft(frame.callee.solved, 20)
    /\ frame' = [frame EXCEPT
                    !.callee.y = GradientStep(args.self, frame.callee.x, frame.callee.y,
                                     from_f64(args.self.data[1].prec, F64_1e_3)),
                    !.callee.solved = frame.callee.solved + 1]
    /\ UNCHANGED <<pc, args, ret>>
    /\ UNCHANGED notSolver

\* the rest of a turn of smallest_singular_value_estimate: it panics, returns
\* lambda_new or goes on
SmallestIterate ==
    /\ pc = "cond_min"
    /\ BudgetLeft(frame.callee.iter, frame.given_min[1])
    /\ ~BudgetLeft(frame.callee.solved, 20)
    /\ LET After(turn) ==
               IF turn.kind = "Panic"
               THEN /\ frame' = [frame EXCEPT !.sigma_min = Panicked]
                    /\ ret' = Panicked
                    /\ pc' = "cond_done"
               ELSE IF turn.kind = "Return"
               THEN /\ frame' = [frame EXCEPT !.sigma_min = Ok(turn.val)]
                    /\ ret' = ret
                    /\ pc' = "cond_test"
               ELSE /\ frame' = [frame EXCEPT
                                    !.callee = [SmallestStart(args.self) EXCEPT
                                                   !.x = turn.x, !.lambda = turn.lambda,
                                                   !.iter = frame.callee.iter + 1]]
                    /\ UNCHANGED <<pc, ret>>
       IN After(SmallestTurn(args.self, frame.callee.y, frame.callee.lambda,
                             frame.given_min[2]))
    /\ UNCHANGED args
    /\ UNCHANGED notSolver

\* the loop of smallest_singular_value_estimate has run max_iters turns:
\* `lambda` is returned
SmallestExhausted ==
    /\ pc = "cond_min"
    /\ ~BudgetLeft(frame.callee.iter, frame.given_min[1])
    /\ frame' = [frame EXCEPT !.sigma_min = Ok(frame.callee.lambda)]
    /\ pc' = "cond_test"
    /\ UNCHANGED <<args, ret>>
    /\ UNCHANGED notSolver

\* if sigma_min.is_zero() { panic!(...) }
CondSingular ==
    /\ pc = "cond_test"
    /\ is_zero(frame.sigma_min.val)
    /\ ret' = Panicked
    /\ pc' = "cond_done"
    /\ UNCHANGED <<args, frame>>
    /\ UNCHANGED notSolver

\* Float::with_val(precision, &sigma_max / &sigma_min)
CondRatio ==
    /\ pc = "cond_test"
    /\ ~is_zero(frame.sigma_min.val)
    /\ ret' = Ok(Div(frame.sigma_max.val, frame.sigma_min.val, args.self.data[1].prec))
    /\ pc' = "cond_done"
    /\ UNCHANGED <<args, frame>>
    /\ UNCHANGED notSolver

CondNext ==
    \/ CondSigmaMax
    \/ SmallestSolve
    \/ SmallestIterate
    \/ SmallestExhausted
    \/ CondSingular
    \/ CondRatio

SpecCond == CondInit /\ [][CondNext]_vars

C27_AnyShapeEstimate ==
    pc = "cond_done" => frame.sigma_min # Panicked

(***************************************************************************)
(* rugmat.rs: required_precision_for_cond                                  *)
(***************************************************************************)
\* cond_estimate.clone().log2().ceil().to_integer().unwrap() for a finite
\* c = man * 2^exp > 0 with man odd: exp when man = 1, else exp + BitLen(man)
CeilLog2(c) == IF c.man = 1 THEN c.exp ELSE c.exp + BitLen(c.man)

\* Integer::to_usize_wrapping: n modulo 2^64, as <<w3, w2, w1, w0>>
to_usize_wrapping(n) ==
    IF n >= 0 THEN W64OfNat(n)
    ELSE <<65535, 65535, 65535 - ((-n - 1) \div 65536), 65535 - ((-n - 1) % 65536)>>

\* usize + usize: the sum modulo 2^64 and whether it left the word
W64Add(a, b) ==
    LET Out(s4, s3, s2, s1) ==
            [sum |-> <<s1 % 65536, s2 % 65536, s3 % 65536, s4 % 65536>>,
             overflow |-> s1 >= 65536]
        Word1(s4, s3, s2) == Out(s4, s3, s2, a[1] + b[1] + s2 \div 65536)
        Word2(s4, s3) == Word1(s4, s3, a[2] + b[2] + s3 \div 65536)
        Word3(s4) == Word2(s4, a[3] + b[3] + s4 \div 65536)
    IN Word3(a[4] + b[4])

\* the usize values of `bits`
BitCounts ==
    {W64OfNat(0), W64OfNat(1), W64OfNat(53), W64OfNat(64), W64OfNat(128),
     <<65535, 65535, 65535, 65535>>, <<65535, 65535, 65535, 65533>>}

\* positive finite condition estimates: 2^e, 3 * 2^e, 5 * 2^e
CondEstimates ==
    {Rounded(m, e, 64) : m \in {1, 3, 5}, e \in -6..4}

PrecisionCalls == [bits : BitCounts, cond_estimate : CondEstimates]

(***************************************************************************)
(* Precision scenario: RugMat::required_precision_for_cond(bits, &c), one  *)
(* step per statement.  `wrapped` records that to_usize_wrapping changed   *)
(* the value of `extra`.                                                   *)
(***************************************************************************)
PrecisionInit ==
    /\ pc = "precision_extra"
    /\ args \in PrecisionCalls
    /\ frame = [extra |-> NoResult, addend |-> NoResult, wrapped |-> FALSE,
                overflow |-> FALSE]
    /\ ret = NoResult
    /\ SolverOnly

\* let extra = cond_estimate.clone().log2().ceil().to_integer().unwrap();
\* and the operand extra.to_usize_wrapping()
PrecisionExtra ==
    /\ pc = "precision_extra"
    /\ frame' = [frame EXCEPT !.extra = CeilLog2(args.cond_estimate),
                              !.addend = to_usize_wrapping(CeilLog2(args.cond_estimate)),
                              !.wrapped = CeilLog2(args.cond_estimate) < 0]
    /\ pc' = "precision_add"
    /\ UNCHANGED <<args, ret>>
    /\ UNCHANGED notSolver

\* bits + extra.to_usize_wrapping(): a sum that leaves the word panics in a
\* build with overflow checks and wraps in a build without them
PrecisionAdd ==
    /\ pc = "precision_add"
    /\ \E overflow_checks \in BOOLEAN :
          LET After(r) ==
                  /\ frame' = [frame EXCEPT !.overflow = r.overflow]
                  /\ ret' = IF r.overflow /\ overflow_checks THEN Panicked ELSE Ok(r.sum)
          IN After(W64Add(args.bits, frame.addend))
    /\ pc' = "precision_done"
    /\ UNCHANGED args
    /\ UNCHANGED notSolver

PrecisionNext == PrecisionExtra \/ PrecisionAdd

SpecPrecision == PrecisionInit /\ [][PrecisionNext]_vars

\* C21: for every positive finite c the call returns bits + ceil(log2(c));
\* no operand and no sum is taken modulo 2^64 and the call does not panic.
C21_RequiredPrecision ==
    pc = "precision_done" =>
        /\ ret.kind = "Ok"
        /\ ~frame.wrapped
        /\ ~frame.overflow
        /\ NatOfW64(args.bits) # Huge =>
               NatOfW64(ret.val) = NatOfW64(args.bits) + frame.extra

\* a turn of lsqr takes for its u-update the alpha that the current v was
\* divided by, and for its v-update the beta of the same turn
RecurrenceRule ==
    (pc = "lsqr" /\ frame'.iter = frame.iter + 1) =>
        /\ frame'.used_alpha = frame.normalizer
        /\ frame'.used_beta = frame'.beta

\* a call of lsqr returns after exactly max_iters turns
FixedCount == pc = "lsqr_done" => frame.iter = args.max_iters

\* C22: lsqr runs exactly max_iters turns; the u-update of each turn uses the
\* alpha that normalized the current v and the v-update the beta of the turn.
C22_LsqrRecurrence == [][RecurrenceRule]_vars /\ []FixedCount

(***************************************************************************)
(* Decode scenario: read_float on a stream that write_float need not have  *)
(* written: any precision among StreamPrecisions, any limb count up to     *)
(* MaxLimbs + 1, followed by up to MaxLimbs + 1 limbs.                     *)
(***************************************************************************)
StreamPrecisions == {0, 1, 64, 65, 128}

StreamHeader(prec, sign, exp, n_limbs) ==
    U32ToLE(prec) \o I8ToLE(sign) \o W64ToLE(exp) \o W64ToLE(W64OfNat(n_limbs))

Streams ==
    {StreamHeader(prec, sign, exp, n) \o Flatten([i \in 1..k |-> W64ToLE(limb)]) :
        prec \in StreamPrecisions, sign \in {1, -1},
        exp \in {<<0, 0, 0, 1>>, ExpZero},
        n \in 0..(MaxLimbs + 1), k \in 0..(MaxLimbs + 1),
        limb \in {<<32768, 0, 0, 0>>, <<65535, 65535, 65535, 65535>>}}

\* the precision and limb-count fields of a stream
StreamPrec(s) == U32FromLE(SubSeq(s, 1, 4))
StreamLimbs(s) == NatOfW64(W64FromLE(SubSeq(s, 14, 21)))

DecodeInit ==
    /\ pc = "decode_start"
    /\ original = <<>>
    /\ buf \in Streams
    /\ restored = NoResult
    /\ CodecOnly

\* read_float(&mut Cursor::new(buf)).  copy_nonoverlapping of more limbs than
\* raw.d holds writes past the allocation (undefined behaviour): the call
\* returns with memory beyond the value overwritten, or the process dies.
DecodeRead ==
    /\ pc = "decode_start"
    /\ \E uninit \in LimbValues, allocOk \in BOOLEAN, survives \in BOOLEAN :
          LET After(r) ==
                  restored' = IF r.kind = "Ok" /\ r.copied > r.alloc /\ ~survives
                              THEN [kind |-> "Abort"]
                              ELSE r
          IN After(read_float(buf, uninit, allocOk))
    /\ pc' = "decoded"
    /\ UNCHANGED <<original, buf>>
    /\ UNCHANGED notCodec

DecodeNext == DecodeRead

SpecDecode == DecodeInit /\ [][DecodeNext]_vars

\* C23: a Float that read_float returns had exactly ceil(prec / 64) limbs
\* copied into its storage, and a stream whose limb count is not
\* ceil(prec / 64) or whose precision is 0 gives a decode error.
C23_LimbCount ==
    pc = "decoded" =>
        /\ restored.kind = "Ok" => restored.copied = restored.alloc
        /\ (StreamPrec(buf) = 0 \/ StreamLimbs(buf) # NLimbs(StreamPrec(buf))) =>
               restored.kind \in {"UnexpectedEof", "InvalidData"}

====
